---- MODULE Spec2Model ----
(***************************************************************************)
(* timing-matcher: the matching, clustering and commit-correlation engine. *)
(*                                                                         *)
(*   aggregator.py    Activity, TimeEntry, Aggregator                      *)
(*   matcher.py       Matcher (match_activity, process, _generate_output)  *)
(*   git_analyzer.py  GitAnalyzer                                          *)
(*   chunker.py       chunk_by_week, chunk_by_date_range, get_date_range   *)
(*                                                                         *)
(* Conventions.  A Python str is a sequence of one-character strings, so   *)
(* that case folding, substring search, ordering and the prefix+digits     *)
(* regular expression are computed and not assumed; a string literal of    *)
(* the source that is only ever concatenated ("Match: ") is one element.   *)
(* None is the one-element sequence <<"None">>, which is no str of the     *)
(* model.  A datetime is a number of seconds since midnight of day 0; its  *)
(* date() is the day number.  A confidence is held in hundredths (0.95 is  *)
(* 95).  An Activity carries rid, the identity of the Python object.       *)
(***************************************************************************)
EXTENDS Integers, Sequences, FiniteSets, TLC

VARIABLES
    agg_pc,        \* SpecAgg: "input" | "done"
    activities,    \* SpecAgg: the list handed to Aggregator.aggregate
    agg_entries,   \* SpecAgg: the list aggregate returned
    m_pc,          \* SpecMatch: "call" | "done"
    m_raw,         \* SpecMatch: the raw record handed to Matcher.match_activity
    m_result,      \* SpecMatch: what match_activity returned
    g_pc,          \* SpecGit: "history" | "loaded" (git log ran) | "failed" |
                   \*          "found"
    g_log,         \* SpecGit: the lines git log prints for the repository
    g_analyzer,    \* SpecGit: the GitAnalyzer (commits and both indexes)
    g_query,       \* SpecGit: the arguments of find_commits_for_activity
    g_found,       \* SpecGit: the list find_commits_for_activity returned
    file,          \* Spec: the records of the Timing export, in file order
    pc,            \* Spec: where Matcher.process stands: "input" | "chunking" |
                   \*       "enrich" | "output" | "done" | "crashed", and "again"
                   \*       after a second call
    start_date,    \* Spec: the first day of the range process works on
    end_date,      \* Spec: the day the range ends before
    week_start,    \* Spec: the day the next window of chunk_by_week starts
    git_analyzers, \* Spec: Matcher.git_analyzers
    all_activities,\* Spec: the activities match_activity returned so far
    matched_count, \* Spec: the counters of process
    ignored_count,
    total_count,
    run_entries,   \* Spec: the TimeEntries of the run
    results,       \* Spec: the dictionary process returns
    repos,         \* Spec: what git log prints for each configured repository
    first_run,     \* Spec: the entries and the dictionary of the first call of
                   \*       process, once the Matcher is called a second time
    c_pc,          \* SpecConf: "members" | "done"
    c_confidences, \* SpecConf: the confidences of the activities of one entry
    c_summation,   \* SpecConf: the sum() of the interpreter that ran
    c_level        \* SpecConf: the confidence level _create_entry set

agg_vars == <<agg_pc, activities, agg_entries>>

match_vars == <<m_pc, m_raw, m_result>>

git_vars == <<g_pc, g_log, g_analyzer, g_query, g_found>>

run_vars == <<file, pc, start_date, end_date, week_start, git_analyzers,
              all_activities, matched_count, ignored_count, total_count,
              run_entries, results, repos, first_run>>

conf_vars == <<c_pc, c_confidences, c_summation, c_level>>

vars == <<agg_vars, match_vars, git_vars, run_vars, conf_vars>>

----------------------------------------------------------------------------
(* Python values *)

None == <<"None">>

\* bool(x) of an Optional[str]: None and "" are falsy
Truthy(s) == s # None /\ s # <<>>

Day == 24 * 60 * 60

Minutes(m) == m * 60

date(t) == t \div Day

RECURSIVE SumSeq(_)
SumSeq(s) == IF s = <<>> THEN 0 ELSE Head(s) + SumSeq(Tail(s))

RECURSIVE Concat(_)
Concat(ss) == IF ss = <<>> THEN <<>> ELSE Head(ss) \o Concat(Tail(ss))

Range(s) == {s[i] : i \in DOMAIN s}

----------------------------------------------------------------------------
(* Python str *)

\* the characters of the model in code point order
Chars ==
    <<" ", ",", "-", "0", "1", "2", "3", "4", "5", "6", "7", "8", "9", ":",
      "A", "B", "C", "D", "E", "F", "G", "H", "I", "J", "K", "L", "M", "N",
      "O", "P", "Q", "R", "S", "T", "U", "V", "W", "X", "Y", "Z",
      "a", "b", "c", "d", "e", "f", "g", "h", "i", "j", "k", "l", "m", "n",
      "o", "p", "q", "r", "s", "t", "u", "v", "w", "x", "y", "z", "|">>

\* the position of every character
code_points == [c \in Range(Chars) |-> CHOOSE i \in DOMAIN Chars : Chars[i] = c]

ord(c) == code_points[c]

Digits == {"0", "1", "2", "3", "4", "5", "6", "7", "8", "9"}

\* str(n) of an int n >= 0
RECURSIVE str_int(_)
str_int(n) ==
    IF n < 10 THEN <<Chars[ord("0") + n]>>
    ELSE str_int(n \div 10) \o <<Chars[ord("0") + (n % 10)]>>

IsUpperChar(c) == ord(c) >= ord("A") /\ ord(c) <= ord("Z")

IsLowerChar(c) == ord(c) >= ord("a") /\ ord(c) <= ord("z")

\* the lower case and the upper case of every character
lower_chars ==
    [c \in Range(Chars) |->
        IF IsUpperChar(c) THEN Chars[ord(c) + (ord("a") - ord("A"))] ELSE c]

upper_chars ==
    [c \in Range(Chars) |->
        IF IsLowerChar(c) THEN Chars[ord(c) - (ord("a") - ord("A"))] ELSE c]

lower_char(c) == lower_chars[c]

upper_char(c) == upper_chars[c]

\* str.lower
lower(s) == [i \in DOMAIN s |-> lower_char(s[i])]

\* str.upper
upper(s) == [i \in DOMAIN s |-> upper_char(s[i])]

\* a < b on str: by code point, a proper prefix first
RECURSIVE str_lt(_, _)
str_lt(a, b) ==
    IF b = <<>> THEN FALSE
    ELSE IF a = <<>> THEN TRUE
    ELSE IF Head(a) = Head(b) THEN str_lt(Tail(a), Tail(b))
    ELSE ord(Head(a)) < ord(Head(b))

\* sorted(S) of a set of str
RECURSIVE sorted_strs(_)
sorted_strs(S) ==
    IF S = {} THEN <<>>
    ELSE LET m == CHOOSE x \in S : \A y \in S \ {x} : str_lt(x, y)
         IN  <<m>> \o sorted_strs(S \ {m})

\* sep.join(parts)
RECURSIVE join(_, _)
join(sep, parts) ==
    IF parts = <<>> THEN <<>>
    ELSE IF Len(parts) = 1 THEN parts[1]
    ELSE parts[1] \o sep \o join(sep, Tail(parts))

\* pat in text
contains(text, pat) ==
    \E i \in 1..(Len(text) - Len(pat) + 1) :
        SubSeq(text, i, i + Len(pat) - 1) = pat

----------------------------------------------------------------------------
(* aggregator.py *)

min_duration_seconds == 30

max_gap_minutes == 15

small_gap_minutes == 5

high_threshold == 85

medium_threshold == 60

Activity(rid, title, app, start, end, ticket, project, name, conf, reason) ==
    [rid |-> rid, activity_title |-> title, application |-> app,
     start_date |-> start, end_date |-> end, ticket |-> ticket,
     project_id |-> project, project_name |-> name,
     confidence |-> conf, match_reason |-> reason]

\* Activity.duration_seconds: int() of a whole number of seconds
duration_seconds(a) == a.end_date - a.start_date

should_merge_no_project(last, current) ==
    LET gap == current.start_date - last.end_date IN
    IF gap < Minutes(small_gap_minutes) THEN TRUE
    ELSE IF gap < Minutes(max_gap_minutes)
              /\ ( (Truthy(last.ticket) /\ Truthy(current.ticket)
                      /\ last.ticket = current.ticket)
                   \/ last.application = current.application )
         THEN TRUE
    ELSE FALSE

should_merge_le(last, current) ==
    LET gap == current.start_date - last.end_date IN
    IF last.project_id # current.project_id THEN FALSE
    ELSE IF gap <= Minutes(small_gap_minutes) THEN TRUE
    ELSE IF gap <= Minutes(max_gap_minutes)
              /\ ( (Truthy(last.ticket) /\ Truthy(current.ticket)
                      /\ last.ticket = current.ticket)
                   \/ last.application = current.application )
         THEN TRUE
    ELSE FALSE

\* _should_merge that merges across a medium gap whatever the tickets and the
\* applications
should_merge_medium_any(last, current) ==
    LET gap == current.start_date - last.end_date IN
    IF last.project_id # current.project_id THEN FALSE
    ELSE IF gap < Minutes(small_gap_minutes) THEN TRUE
    ELSE IF gap < Minutes(max_gap_minutes) THEN TRUE
    ELSE FALSE

\* Aggregator._should_merge
should_merge(last, current) ==
    LET gap == current.start_date - last.end_date IN
    IF last.project_id # current.project_id THEN FALSE
    ELSE IF gap < Minutes(small_gap_minutes) THEN TRUE
    ELSE IF gap < Minutes(max_gap_minutes)
              /\ ( (Truthy(last.ticket) /\ Truthy(current.ticket)
                      /\ last.ticket = current.ticket)
                   \/ last.application = current.application )
         THEN TRUE
    ELSE FALSE

(* The IEEE-754 binary64 arithmetic of the confidence mean.  Every          *)
(* confidence and both thresholds are multiples of 0.05, so a double x is  *)
(* held as [h |-> k, e |-> d]: x = k/20 + d*u with u = 2^-55 / 5, that is  *)
(* k twentieths and the representation error in units of u.  One twentieth *)
(* is 2^53 units, and the doubles of [2^(b-3), 2^(b-2)) are the multiples  *)
(* of 5 * 2^b units.                                                       *)

\* 2^m modulo 5
pow2mod5(m) == <<1, 2, 4, 3>>[(m % 4) + 1]

\* the b with 2^(b-3) <= x < 2^(b-2), for 0.125 <= x < 32
binade(x) ==
    LET b == CHOOSE k \in 0..7 : 20 * 2^k <= 8 * x.h /\ 8 * x.h < 40 * 2^k
    IN  IF 8 * x.h = 20 * 2^b /\ x.e < 0 THEN b - 1 ELSE b

\* the distance of x, in units, above a double with an even mantissa or
\* (remainder 1) an odd one: <<mantissa parity of the double just below or
\* at x, units above it>>
above_double(x) ==
    LET b == binade(x)
        r == (x.h * pow2mod5(53 - b)) % 5
        o == 2^b * r + x.e
    IN  <<(r + (o \div (5 * 2^b))) % 2, o % (5 * 2^b)>>

\* the double nearest to the real number x, ties to the even mantissa
round_double(x) ==
    IF x.h = 0 THEN x
    ELSE LET ulp  == 5 * 2^binade(x)
             p    == above_double(x)
             down == [h |-> x.h, e |-> x.e - p[2]]
             up   == [h |-> x.h, e |-> x.e + ulp - p[2]]
         IN  IF 2 * p[2] < ulp THEN down
             ELSE IF 2 * p[2] > ulp THEN up
             ELSE IF p[1] = 0 THEN down ELSE up

\* the double a literal of c hundredths denotes (0.95, 0.85, ...)
double(c) == round_double([h |-> c \div 5, e |-> 0])

\* a + b of two doubles
float_add(a, b) == round_double([h |-> a.h + b.h, e |-> a.e + b.e])

\* sum() of CPython up to 3.11: one double addition per element, from the
\* int 0, left to right
RECURSIVE sequential_sum(_, _)
sequential_sum(xs, s) ==
    IF xs = <<>> THEN s ELSE sequential_sum(Tail(xs), float_add(s, Head(xs)))

\* sum() of CPython from 3.12: compensated summation, which for the few
\* addends of an entry is the exact sum of the doubles rounded once
compensated_sum(xs) ==
    round_double([h |-> SumSeq([i \in DOMAIN xs |-> xs[i].h]),
                  e |-> SumSeq([i \in DOMAIN xs |-> xs[i].e])])

Summations == {"sequential", "compensated"}

float_sum(xs, summation) ==
    IF summation = "sequential" THEN sequential_sum(xs, [h |-> 0, e |-> 0])
    ELSE compensated_sum(xs)

\* total / n >= t for the doubles total and t and the int n: the quotient
\* rounds to t or above iff it lies above the midpoint below t, or on it
\* while the mantissa of t is even
mean_at_least(total, n, t) ==
    IF total.h # n * t.h THEN total.h > n * t.h
    ELSE LET d == 2 * total.e - n * (2 * t.e - 5 * 2^binade(t))
         IN  d > 0 \/ (d = 0 /\ above_double(t)[1] = 0)

\* avg_confidence = sum(a.confidence for a in activities) / len(activities)
\* and its bucket
average_level(confidences, summation) ==
    LET total == float_sum([i \in DOMAIN confidences |-> double(confidences[i])],
                           summation)
        n     == Len(confidences)
    IN  IF mean_at_least(total, n, double(high_threshold)) THEN "high"
        ELSE IF mean_at_least(total, n, double(medium_threshold)) THEN "medium"
        ELSE "low"

\* the confidence level of an entry; both summations agree on it for the
\* entries of fewer than twelve members (C13_SummationsAgreeOnSmallEntries)
confidence_level(group) ==
    average_level([i \in DOMAIN group |-> group[i].confidence], "sequential")

has_title(a) == Truthy(a.activity_title)

\* Counter(titles).most_common(1)[0][0]: the highest count, the first
\* encountered among equals
most_common(titles) ==
    LET count(t) == Cardinality({i \in DOMAIN titles : titles[i] = t})
        best == CHOOSE i \in DOMAIN titles :
                    /\ \A j \in DOMAIN titles : count(titles[j]) <= count(titles[i])
                    /\ \A j \in 1..(i - 1) : count(titles[j]) < count(titles[i])
    IN  titles[best]

\* _create_title that takes the ticket of the first member that has one
create_title_first_ticket(group) ==
    LET with == SelectSeq(group, LAMBDA a : Truthy(a.ticket))
        ticket == with[1].ticket
        other(a) == Truthy(a.activity_title) /\ a.activity_title # ticket
        described == SelectSeq(group, other)
        titled  == SelectSeq(group, has_title)
        apps    == {group[i].application : i \in DOMAIN group}
    IN  IF with # <<>>
        THEN IF described # <<>>
             THEN ticket \o <<": ">> \o described[1].activity_title
             ELSE ticket
        ELSE IF titled # <<>>
             THEN most_common([i \in DOMAIN titled |-> titled[i].activity_title])
        ELSE <<"Work in ">> \o join(<<", ">>, sorted_strs(apps))

\* Aggregator._create_title
create_title(group) ==
    LET tickets == {group[i].ticket : i \in {j \in DOMAIN group : Truthy(group[j].ticket)}}
        ticket  == sorted_strs(tickets)[1]
        other(a) == Truthy(a.activity_title) /\ a.activity_title # ticket
        described == SelectSeq(group, other)
        titled  == SelectSeq(group, has_title)
        apps    == {group[i].application : i \in DOMAIN group}
    IN  IF tickets # {}
        THEN IF described # <<>>
             THEN ticket \o <<": ">> \o described[1].activity_title
             ELSE ticket
        ELSE IF titled # <<>>
             THEN most_common([i \in DOMAIN titled |-> titled[i].activity_title])
        ELSE <<"Work in ">> \o join(<<", ">>, sorted_strs(apps))

\* _create_notes that names the reason of the first member when the members
\* have several
create_notes_first_reason(group) ==
    LET apps    == sorted_strs({group[i].application : i \in DOMAIN group})
        with    == SelectSeq(group, LAMBDA a : Truthy(a.match_reason))
        app_part == IF Len(apps) > 1
                    THEN << <<"Applications: ">> \o join(<<", ">>, apps) >>
                    ELSE <<>>
        reason_part == IF with # <<>>
                       THEN << <<"Match: ">> \o with[1].match_reason >>
                       ELSE <<>>
    IN  join(<<"\n">>, app_part \o reason_part)

\* Aggregator._create_notes
create_notes(group) ==
    LET apps    == sorted_strs({group[i].application : i \in DOMAIN group})
        reasons == {group[i].match_reason :
                        i \in {j \in DOMAIN group : Truthy(group[j].match_reason)}}
        app_part == IF Len(apps) > 1
                    THEN << <<"Applications: ">> \o join(<<", ">>, apps) >>
                    ELSE <<>>
        reason_part == IF Cardinality(reasons) = 1
                       THEN << <<"Match: ">> \o (CHOOSE r \in reasons : TRUE) >>
                       ELSE <<>>
    IN  join(<<"\n">>, app_part \o reason_part)

\* _create_entry that ends the entry at the greatest end of its members
create_entry_greatest_end(group) ==
    [start_date |-> group[1].start_date,
     end_date |-> CHOOSE t \in {group[i].end_date : i \in DOMAIN group} :
                     \A i \in DOMAIN group : group[i].end_date <= t,
     project_id |-> group[1].project_id,
     project_name |-> group[1].project_name,
     title |-> create_title(group),
     notes |-> create_notes(group),
     confidence |-> confidence_level(group),
     source_activities |-> group,
     commit_shas |-> <<>>]

\* Aggregator._create_entry
create_entry(group) ==
    [start_date |-> group[1].start_date,
     end_date |-> group[Len(group)].end_date,
     project_id |-> group[1].project_id,
     project_name |-> group[1].project_name,
     title |-> create_title(group),
     notes |-> create_notes(group),
     confidence |-> confidence_level(group),
     source_activities |-> group,
     commit_shas |-> <<>>]

\* list.sort(key=start_date): stable, so equal starts keep their list order
RECURSIVE InsertByStart(_, _)
InsertByStart(sorted, a) ==
    IF sorted = <<>> THEN <<a>>
    ELSE IF Head(sorted).start_date <= a.start_date
         THEN <<Head(sorted)>> \o InsertByStart(Tail(sorted), a)
         ELSE <<a>> \o sorted

RECURSIVE sort_by_start(_)
sort_by_start(s) ==
    IF s = <<>> THEN <<>>
    ELSE InsertByStart(sort_by_start(SubSeq(s, 1, Len(s) - 1)), s[Len(s)])

long_enough_gt(a) == duration_seconds(a) > min_duration_seconds

\* the filter of aggregate: a.duration_seconds >= self.min_duration_seconds
long_enough(a) == duration_seconds(a) >= min_duration_seconds

filter_min_duration(acts) == SelectSeq(acts, long_enough)

\* the grouping loop of aggregate from element i on, with the entries made so
\* far and the open group
RECURSIVE group_loop(_, _, _, _)
group_loop(acts, i, entries, current_group) ==
    IF i > Len(acts)
    THEN IF current_group # <<>> THEN Append(entries, create_entry(current_group))
         ELSE entries
    ELSE IF current_group = <<>>
         THEN group_loop(acts, i + 1, entries, <<acts[i]>>)
    ELSE IF should_merge(current_group[Len(current_group)], acts[i])
         THEN group_loop(acts, i + 1, entries, Append(current_group, acts[i]))
    ELSE group_loop(acts, i + 1, Append(entries, create_entry(current_group)),
                    <<acts[i]>>)

\* aggregate that groups the activities in the order it is given them
aggregate_unsorted(acts) ==
    group_loop(filter_min_duration(acts), 1, <<>>, <<>>)

\* aggregate that forgets the group left open when the loop ends
aggregate_open_group_lost(acts) ==
    LET entries == group_loop(sort_by_start(filter_min_duration(acts)), 1, <<>>, <<>>)
    IN  SubSeq(entries, 1, Len(entries) - 1)

\* Aggregator.aggregate
aggregate(acts) ==
    group_loop(sort_by_start(filter_min_duration(acts)), 1, <<>>, <<>>)

----------------------------------------------------------------------------
(* git_analyzer.py *)

Unparsable == 0 - 1

commit_time_window_minutes == 15

\* one line of git log --format=%H|%ai|%s|%an: parts is the number of fields
\* split("|", 3) yields, timestamp Unparsable when date_parser.parse raises
LogLine(sha, timestamp, message, parts) ==
    [sha |-> sha, timestamp |-> timestamp, message |-> message, parts |-> parts]

\* every match of (prefix\d+), in any case, in text
ticket_findall(prefix, text) ==
    LET n == Len(prefix)
        folded == lower(text)
        folded_prefix == lower(prefix)
        starts == {i \in 1..(Len(text) - n) :
                      /\ SubSeq(folded, i, i + n - 1) = folded_prefix
                      /\ text[i + n] \in Digits}
        last(i) == CHOOSE j \in (i + n)..Len(text) :
                      /\ \A k \in (i + n)..j : text[k] \in Digits
                      /\ (j = Len(text) \/ text[j + 1] \notin Digits)
    IN  {SubSeq(text, i, last(i)) : i \in starts}

\* GitAnalyzer._extract_tickets
extract_tickets(ticket_prefixes, text) ==
    UNION {{upper(m) : m \in ticket_findall(ticket_prefixes[k], text)} :
               k \in DOMAIN ticket_prefixes}

\* sha[:8]
short_sha(sha) == SubSeq(sha, 1, IF Len(sha) < 8 THEN Len(sha) ELSE 8)

\* GitAnalyzer.__init__
new_analyzer(ticket_prefixes) ==
    [ticket_prefixes |-> ticket_prefixes, commits |-> <<>>,
     commits_by_date |-> <<>>, commits_by_ticket |-> <<>>]

\* d[key].append(commit) on a defaultdict(list) held as a function
dict_append(d, key, commit) ==
    IF key \in DOMAIN d THEN [d EXCEPT ![key] = Append(@, commit)]
    ELSE (key :> <<commit>>) @@ d

RECURSIVE index_tickets(_, _, _)
index_tickets(d, tickets, commit) ==
    IF tickets = {} THEN d
    ELSE LET t == CHOOSE x \in tickets : TRUE
         IN  index_tickets(dict_append(d, t, commit), tickets \ {t}, commit)

\* the body of the parsing loop of load_commits for one parsable line
add_commit(an, line) ==
    LET commit == [sha |-> short_sha(line.sha), timestamp |-> line.timestamp,
                   message |-> line.message,
                   tickets |-> extract_tickets(an.ticket_prefixes, line.message)]
    IN  [an EXCEPT
           !.commits = Append(@, commit),
           !.commits_by_date = dict_append(@, date(line.timestamp), commit),
           !.commits_by_ticket = index_tickets(@, commit.tickets, commit)]

\* the parsing loop of load_commits from line i on: a line without four fields
\* is skipped; a timestamp that does not parse raises out of the loop into
\* "except Exception", which ends the loading with what was loaded before
RECURSIVE load_lines(_, _, _)
load_lines(an, lines, i) ==
    IF i > Len(lines) THEN an
    ELSE IF lines[i].parts # 4 THEN load_lines(an, lines, i + 1)
    ELSE IF lines[i].timestamp = Unparsable THEN an
    ELSE load_lines(add_commit(an, lines[i]), lines, i + 1)

\* GitAnalyzer.load_commits; reachable: the path exists and git log succeeds
load_commits(an, lines, reachable) ==
    IF ~reachable THEN an ELSE load_lines(an, lines, 1)

in_window(c, search_start, search_end) ==
    search_start <= c.timestamp /\ c.timestamp <= search_end

\* sorted(commits, key=timestamp): stable
RECURSIVE InsertByTimestamp(_, _)
InsertByTimestamp(sorted, c) ==
    IF sorted = <<>> THEN <<c>>
    ELSE IF Head(sorted).timestamp <= c.timestamp
         THEN <<Head(sorted)>> \o InsertByTimestamp(Tail(sorted), c)
         ELSE <<c>> \o sorted

RECURSIVE sort_by_timestamp(_)
sort_by_timestamp(s) ==
    IF s = <<>> THEN <<>>
    ELSE InsertByTimestamp(sort_by_timestamp(SubSeq(s, 1, Len(s) - 1)), s[Len(s)])

\* self.commits_by_date.get(key, [])
bucket(an, key) ==
    IF key \in DOMAIN an.commits_by_date THEN an.commits_by_date[key] ELSE <<>>

\* the time-only part that scans the bucket of the start date alone
find_by_time_start_date(an, activity_start, activity_end, search_start, search_end) ==
    LET inside(c) == in_window(c, search_start, search_end)
    IN  sort_by_timestamp(SelectSeq(bucket(an, date(activity_start)), inside))

\* the time-only part of find_commits_for_activity
find_by_time(an, activity_start, activity_end, search_start, search_end) ==
    LET inside(c) == in_window(c, search_start, search_end)
        first_day == SelectSeq(bucket(an, date(activity_start)), inside)
        next_day == IF date(activity_start) # date(activity_end)
                    THEN SelectSeq(bucket(an, date(activity_end)), inside)
                    ELSE <<>>
    IN  sort_by_timestamp(first_day \o next_day)

\* find_commits_for_activity that scans by time whatever the ticket
find_commits_time_only(an, activity_start, activity_end, ticket, time_window_minutes) ==
    find_by_time(an, activity_start, activity_end,
                 activity_start - Minutes(time_window_minutes),
                 activity_end + Minutes(time_window_minutes))

\* find_commits_for_activity that looks for the ticket's commits only in the
\* date buckets of the activity
find_commits_ticket_on_dates(an, activity_start, activity_end, ticket, time_window_minutes) ==
    LET search_start == activity_start - Minutes(time_window_minutes)
        search_end == activity_end + Minutes(time_window_minutes)
        by_time == find_by_time(an, activity_start, activity_end, search_start, search_end)
        with_ticket(c) == ticket \in c.tickets
        ticket_commits == IF Truthy(ticket) THEN SelectSeq(by_time, with_ticket) ELSE <<>>
    IN  IF ticket_commits # <<>> THEN ticket_commits ELSE by_time

\* GitAnalyzer.find_commits_for_activity
find_commits_for_activity(an, activity_start, activity_end, ticket, time_window_minutes) ==
    LET search_start == activity_start - Minutes(time_window_minutes)
        search_end == activity_end + Minutes(time_window_minutes)
        inside(c) == in_window(c, search_start, search_end)
        ticket_commits ==
            IF Truthy(ticket) /\ ticket \in DOMAIN an.commits_by_ticket
            THEN SelectSeq(an.commits_by_ticket[ticket], inside)
            ELSE <<>>
    IN  IF ticket_commits # <<>> THEN ticket_commits
        ELSE find_by_time(an, activity_start, activity_end, search_start, search_end)

\* GitAnalyzer.format_commit_notes
format_commit_notes(commits) ==
    IF commits = <<>> THEN <<>>
    ELSE <<"Commits: ">> \o join(<<", ">>, [i \in DOMAIN commits |-> commits[i].sha])

----------------------------------------------------------------------------
(* SpecGit: one repository's history, load_commits, one lookup *)

MaxLogLines == 3

\* the full sha of the n-th line of the history
ShaOf(n) ==
    <<Chars[ord("0") + n], "a", "b", "c", "d", "e", "f", "0", "1", "2">>

GitPrefixes == << <<"A", "-">>, <<"B", "-">> >>

\* author dates: before and inside an entry of day 0, shortly before
\* midnight, just after midnight of day 1
GitTimes == {3000, 5000, Day - 200, Day + 100}

GitMessages ==
    { <<"w", "i", "p">>, <<"A", "-", "1", " ", "f", "i", "x">>,
      <<"a", "-", "1", " ", "B", "-", "2">> }

GitLines(n) ==
    {LogLine(ShaOf(n), t, m, 4) : t \in GitTimes, m \in GitMessages}
      \cup {LogLine(ShaOf(n), Unparsable, <<"w", "i", "p">>, 4),
            LogLine(ShaOf(n), 5000, <<"w", "i", "p">>, 3)}

\* entries: inside day 0, across midnight, ending shortly before midnight
GitSpans == { <<3600, 7200>>, <<Day - 600, Day + 600>>, <<Day - 600, Day - 100>> }

GitTickets == {None, <<"A", "-", "1">>, <<"B", "-", "2">>}

GitInit ==
    /\ g_pc = "history"
    /\ g_log = <<>>
    /\ g_analyzer = new_analyzer(GitPrefixes)
    /\ g_query = <<>>
    /\ g_found = <<>>
    /\ agg_pc = "input" /\ activities = <<>> /\ agg_entries = <<>>
    /\ m_pc = "call" /\ m_raw = <<>> /\ m_result = <<>>
    /\ c_pc = "members" /\ c_confidences = <<>> /\ c_summation = <<>> /\ c_level = <<>>
    /\ file = <<>> /\ pc = "input" /\ start_date = 0 /\ end_date = 0
    /\ week_start = 0 /\ git_analyzers = <<>> /\ all_activities = <<>>
    /\ matched_count = 0 /\ ignored_count = 0 /\ total_count = 0
    /\ run_entries = <<>> /\ results = <<>> /\ repos = <<>> /\ first_run = <<>>

\* the repository gains a commit
GitCommit ==
    /\ g_pc = "history"
    /\ Len(g_log) < MaxLogLines
    /\ \E line \in GitLines(Len(g_log) + 1) : g_log' = Append(g_log, line)
    /\ UNCHANGED <<g_pc, g_analyzer, g_query, g_found, agg_vars, match_vars, run_vars, conf_vars>>

GitLoad ==
    /\ g_pc = "history"
    /\ \E reachable \in BOOLEAN :
         /\ g_analyzer' = load_commits(g_analyzer, g_log, reachable)
         /\ g_pc' = IF reachable THEN "loaded" ELSE "failed"
    /\ UNCHANGED <<g_log, g_query, g_found, agg_vars, match_vars, run_vars, conf_vars>>

GitFind ==
    /\ g_pc \in {"loaded", "failed"}
    /\ \E span \in GitSpans, ticket \in GitTickets :
         /\ g_query' = [activity_start |-> span[1], activity_end |-> span[2],
                        ticket |-> ticket]
         /\ g_found' = find_commits_for_activity(g_analyzer, span[1], span[2],
                            ticket, commit_time_window_minutes)
    /\ g_pc' = "found"
    /\ UNCHANGED <<g_log, g_analyzer, agg_vars, match_vars, run_vars, conf_vars>>

GitNext == GitCommit \/ GitLoad \/ GitFind

SpecGit == GitInit /\ [][GitNext]_vars

\* the expanded window of the lookup made
g_search_start == g_query.activity_start - commit_time_window_minutes * 60

g_search_end == g_query.activity_end + commit_time_window_minutes * 60

g_in_window(c) == g_search_start <= c.timestamp /\ c.timestamp <= g_search_end

\* the ticket index's list for the ticket of the lookup (empty without one)
g_ticket_list ==
    IF g_query.ticket \in DOMAIN g_analyzer.commits_by_ticket
    THEN g_analyzer.commits_by_ticket[g_query.ticket]
    ELSE <<>>

\* C10 as claimed: a lookup with a ticket that has at least one commit in the
\* ticket index returns only commits of that ticket's list that lie in the
\* expanded window.
C10_Claimed_TicketIndexedOnly ==
    (g_pc = "found" /\ Truthy(g_query.ticket) /\ g_ticket_list # <<>>)
    => \A c \in Range(g_found) : c \in Range(g_ticket_list) /\ g_in_window(c)

\* C10 amended: a lookup with a ticket that has at least one indexed commit
\* inside the expanded window returns exactly the commits of that ticket's
\* list that lie in the window, in index order, whatever other commits the
\* window holds.
C10_TicketInWindowOnly ==
    (/\ g_pc = "found" /\ Truthy(g_query.ticket)
     /\ \E c \in Range(g_ticket_list) : g_in_window(c))
    => /\ g_found = SelectSeq(g_ticket_list, g_in_window)
       /\ \A c \in Range(g_found) : g_query.ticket \in c.tickets

\* C10 happens: the ticket's commits are returned while a loaded commit
\* without the ticket lies in the window too
C10_Witness ==
    /\ g_pc = "found" /\ Truthy(g_query.ticket)
    /\ g_found # <<>>
    /\ \A c \in Range(g_found) : g_query.ticket \in c.tickets
    /\ \E c \in Range(g_analyzer.commits) :
         /\ g_in_window(c)
         /\ g_query.ticket \notin c.tickets
         /\ date(c.timestamp) = date(g_query.activity_start)

\* C12: a lookup without a ticket, or with a ticket that is no key of the
\* ticket index, returns the loaded commits dated on the start date or on the
\* end date of the activity that lie in the expanded window, each once, in
\* ascending order of timestamp.
C12_TimeScanOfBothDates ==
    (g_pc = "found"
     /\ (~Truthy(g_query.ticket) \/ g_query.ticket \notin DOMAIN g_analyzer.commits_by_ticket))
    => /\ Range(g_found) =
             {c \in Range(g_analyzer.commits) :
                 /\ date(c.timestamp) \in {date(g_query.activity_start),
                                            date(g_query.activity_end)}
                 /\ g_in_window(c)}
       /\ \A i, j \in DOMAIN g_found :
             /\ i < j => g_found[i].timestamp <= g_found[j].timestamp
             /\ i # j => g_found[i] # g_found[j]

\* C12 happens: an activity across midnight, a lookup without a ticket that
\* returns a commit of each day and leaves out a commit of the start date
\* that lies before the window
C12_Witness ==
    /\ g_pc = "found" /\ ~Truthy(g_query.ticket)
    /\ date(g_query.activity_start) # date(g_query.activity_end)
    /\ \E c, e \in Range(g_found) :
         /\ date(c.timestamp) = date(g_query.activity_start)
         /\ date(e.timestamp) = date(g_query.activity_end)
    /\ \E c \in Range(g_analyzer.commits) :
         /\ date(c.timestamp) = date(g_query.activity_start)
         /\ ~g_in_window(c)

\* the dates find_commits_for_activity scans by time
g_scanned_dates == {date(g_query.activity_start), date(g_query.activity_end)}

\* C11: a lookup with a ticket returns every loaded commit that references
\* the ticket and lies in the expanded window, whatever its calendar date;
\* and a result that holds a commit of the ticket holds no commit without it.
C11_EveryTicketCommitInWindow ==
    (g_pc = "found" /\ Truthy(g_query.ticket))
    => /\ \A c \in Range(g_analyzer.commits) :
             (g_query.ticket \in c.tickets /\ g_in_window(c)) => c \in Range(g_found)
       /\ (\E c \in Range(g_found) : g_query.ticket \in c.tickets)
             => \A c \in Range(g_found) : g_query.ticket \in c.tickets

\* C11 happens: the result holds a commit of the ticket dated on neither day
\* of the activity, and leaves out a commit without the ticket that lies in
\* the window
C11_Witness ==
    /\ g_pc = "found" /\ Truthy(g_query.ticket)
    /\ \E c \in Range(g_found) :
         /\ g_query.ticket \in c.tickets
         /\ date(c.timestamp) \notin g_scanned_dates
    /\ \E c \in Range(g_analyzer.commits) :
         /\ g_in_window(c)
         /\ g_query.ticket \notin c.tickets
         /\ c \notin Range(g_found)

\* C28: a lookup without a ticket returns exactly the loaded commits whose
\* timestamps lie in the expanded window, each once, also when the window
\* reaches into a day the activity does not touch.
C28_EveryCommitInWindow ==
    (g_pc = "found" /\ ~Truthy(g_query.ticket))
    => /\ Range(g_found) = {c \in Range(g_analyzer.commits) : g_in_window(c)}
       /\ Len(g_found) =
             Cardinality({i \in DOMAIN g_analyzer.commits :
                             g_in_window(g_analyzer.commits[i])})

\* the line has four fields and a timestamp that parses
parsable(line) == line.parts = 4 /\ line.timestamp # Unparsable

\* the Commit load_commits builds from the line
commit_of(line) ==
    [sha |-> short_sha(line.sha), timestamp |-> line.timestamp,
     message |-> line.message,
     tickets |-> extract_tickets(GitPrefixes, line.message)]

\* the commit is in the list of the analyzer and in both indexes
indexed(c) ==
    /\ c \in Range(g_analyzer.commits)
    /\ date(c.timestamp) \in DOMAIN g_analyzer.commits_by_date
    /\ c \in Range(g_analyzer.commits_by_date[date(c.timestamp)])
    /\ \A t \in c.tickets :
          /\ t \in DOMAIN g_analyzer.commits_by_ticket
          /\ c \in Range(g_analyzer.commits_by_ticket[t])

\* C18: when git log has run, every line of its output that has four fields
\* and a timestamp that parses is a commit of the analyzer and of both
\* indexes, whatever unparsable lines stand before or after it.
C18_UnparsableLineSkipped ==
    g_pc = "loaded" =>
        \A i \in DOMAIN g_log : parsable(g_log[i]) => indexed(commit_of(g_log[i]))

\* what load_commits does keep: the parsable lines before the first timestamp
\* that does not parse, lines without four fields among them being skipped
C18_LinesBeforeBadTimestampLoaded ==
    g_pc = "loaded" =>
        /\ \A i \in DOMAIN g_log :
              (parsable(g_log[i])
               /\ \A j \in 1..(i - 1) :
                     g_log[j].parts = 4 => g_log[j].timestamp # Unparsable)
              => indexed(commit_of(g_log[i]))
        /\ Len(g_analyzer.commits) <= Len(g_log)

----------------------------------------------------------------------------
(* matcher.py: configuration and match_activity *)

\* project ids and names, a ticket and applications of the bounded inputs
P1 == <<"p", "1">>
P2 == <<"p", "2">>
P3 == <<"p", "3">>
N1 == <<"O", "n", "e">>
N2 == <<"T", "w", "o">>
N3 == <<"D", "o", "c", "s">>
T1 == <<"A", "-", "1">>
AppCode == <<"C", "o", "d", "e">>
AppTerm == <<"T", "e", "r", "m">>

\* project_mappings["ticketPrefixes"], in the order of the document
ticketPrefixes ==
    << [prefix |-> <<"A", "-">>, projectId |-> P1, projectName |-> N1],
       [prefix |-> <<"B", "-">>, projectId |-> P2, projectName |-> N2] >>

\* project_mappings["activityPatterns"]; description None: the key is absent
activityPatterns ==
    << [pattern |-> <<"D", "o", "c">>, regex |-> FALSE, projectId |-> P3,
        projectName |-> N3, description |-> <<"d", "o", "c", "s">>],
       [pattern |-> <<"z", "o", "o", "m", "|", "d", "o", "c">>, regex |-> TRUE,
        projectId |-> P2, projectName |-> N2, description |-> None] >>

\* project_mappings["ignorePatterns"]
ignorePatterns == << <<"i", "d", "l", "e">> >>

confidence_ticket == 95

confidence_pattern == 75

confidence_unmatched == 20

\* the alternatives of a regular expression lit1|lit2|...
RECURSIVE alternatives(_)
alternatives(pattern) ==
    IF \E i \in DOMAIN pattern : pattern[i] = "|"
    THEN LET bar == CHOOSE i \in DOMAIN pattern :
                        pattern[i] = "|" /\ \A j \in 1..(i - 1) : pattern[j] # "|"
         IN  <<SubSeq(pattern, 1, bar - 1)>>
                 \o alternatives(SubSeq(pattern, bar + 1, Len(pattern)))
    ELSE <<pattern>>

\* re.compile(pattern, re.IGNORECASE).search(text) is not None, for a pattern
\* that is an alternation of literals
regex_search(pattern, text) ==
    LET literals == alternatives(pattern)
        folded == lower(text)
    IN  \E k \in DOMAIN literals : contains(folded, lower(literals[k]))

\* re.compile("(" + re.escape(prefix) + "\d+)", re.IGNORECASE).search(text):
\* the leftmost occurrence of the prefix in any case followed by a digit, with
\* all the digits that follow; None without one
ticket_search(prefix, text) ==
    LET n == Len(prefix)
        folded == lower(text)
        folded_prefix == lower(prefix)
        starts == {i \in 1..(Len(text) - n) :
                      /\ SubSeq(folded, i, i + n - 1) = folded_prefix
                      /\ text[i + n] \in Digits}
        first == CHOOSE i \in starts : \A j \in starts : i <= j
        last  == CHOOSE j \in (first + n)..Len(text) :
                      /\ \A k \in (first + n)..j : text[k] \in Digits
                      /\ (j = Len(text) \/ text[j + 1] \notin Digits)
    IN  IF starts = {} THEN None ELSE SubSeq(text, first, last)

\* the position of the leftmost match of prefix in text
ticket_position(prefix, text) ==
    CHOOSE i \in DOMAIN text :
        /\ i + Len(prefix) <= Len(text)
        /\ lower(SubSeq(text, i, i + Len(prefix) - 1)) = lower(prefix)
        /\ text[i + Len(prefix)] \in Digits
        /\ \A j \in 1..(i - 1) :
              ~(/\ lower(SubSeq(text, j, j + Len(prefix) - 1)) = lower(prefix)
                /\ text[j + Len(prefix)] \in Digits)

\* _match_ticket that takes the match that stands leftmost in the text
match_ticket_leftmost(text) ==
    LET hits == {k \in DOMAIN ticketPrefixes :
                    ticket_search(ticketPrefixes[k].prefix, text) # None}
        pos(k) == ticket_position(ticketPrefixes[k].prefix, text)
        k0 == CHOOSE k \in hits : \A l \in hits : pos(k) <= pos(l)
    IN  IF hits = {} THEN <<>>
        ELSE <<upper(ticket_search(ticketPrefixes[k0].prefix, text)), ticketPrefixes[k0]>>

\* the loop of _match_ticket from prefix k on
RECURSIVE match_ticket_from(_, _)
match_ticket_from(k, text) ==
    IF k > Len(ticketPrefixes) THEN <<>>
    ELSE LET match == ticket_search(ticketPrefixes[k].prefix, text) IN
         IF match # None THEN <<upper(match), ticketPrefixes[k]>>
         ELSE match_ticket_from(k + 1, text)

\* Matcher._match_ticket: <<ticket, mapping>>, <<>> for (None, None)
match_ticket(text) == match_ticket_from(1, text)

\* what _compile_patterns and _match_pattern do with one pattern
pattern_hits(p, search_text) ==
    IF p.regex THEN regex_search(p.pattern, search_text)
    ELSE contains(search_text, lower(p.pattern))

\* _match_pattern in which a later matching pattern replaces an earlier one
match_pattern_last(activity_title, application) ==
    LET search_text == lower(activity_title \o <<" ">> \o application)
        hits == {k \in DOMAIN activityPatterns :
                    pattern_hits(activityPatterns[k], search_text)}
    IN  IF hits = {} THEN <<>>
        ELSE <<activityPatterns[CHOOSE k \in hits : \A l \in hits : l <= k]>>

\* the loop of _match_pattern from pattern k on
RECURSIVE match_pattern_from(_, _)
match_pattern_from(k, search_text) ==
    IF k > Len(activityPatterns) THEN <<>>
    ELSE IF pattern_hits(activityPatterns[k], search_text)
         THEN <<activityPatterns[k]>>
    ELSE match_pattern_from(k + 1, search_text)

\* Matcher._match_pattern: the mapping in a one-element list, <<>> for None
match_pattern(activity_title, application) ==
    match_pattern_from(1, lower(activity_title \o <<" ">> \o application))

\* raw_activity.get("application", "Unknown"); None: the key is absent
application_of(raw) ==
    IF raw.application = None THEN <<"U", "n", "k", "n", "o", "w", "n">>
    ELSE raw.application

\* the ignore loop of match_activity
is_ignored(raw) ==
    \E k \in DOMAIN ignorePatterns :
        \/ Truthy(raw.activityTitle) /\ regex_search(ignorePatterns[k], raw.activityTitle)
        \/ regex_search(ignorePatterns[k], application_of(raw))

\* the Activity match_activity builds for a record once it is neither ignored
\* nor malformed: ticket, then pattern, then unmatched
classify(rid, raw) ==
    LET activity_title == raw.activityTitle
        application == application_of(raw)
        title == IF Truthy(activity_title) THEN activity_title ELSE <<>>
        tm == match_ticket(title)
        pm == match_pattern(title, application)
        new(ticket, project, name, conf, reason) ==
            Activity(rid, activity_title, application, raw.startDate, raw.endDate,
                     ticket, project, name, conf, reason)
    IN  IF tm # <<>>
        THEN new(tm[1], tm[2].projectId, tm[2].projectName, confidence_ticket,
                 <<"Exact ticket match: ">> \o tm[1])
        ELSE IF pm # <<>>
        THEN new(None, pm[1].projectId, pm[1].projectName, confidence_pattern,
                 <<"Pattern match: ">> \o
                     (IF pm[1].description = None THEN <<"activity pattern">>
                      ELSE pm[1].description))
        ELSE new(None, None, None, confidence_unmatched, <<"No pattern matched">>)

\* an exception of the class, as the outcome of a call: no list of one
\* Activity and not the empty list
TypeError == <<"raised", "TypeError">>

raises(outcome) == outcome = TypeError

\* "endDate": null in the export (a startDate of null is delivered by no jq
\* filter of the chunker)
null_date(raw) == raw.endDate_null

\* match_activity that tries the ticket before the ignore patterns
match_activity_ticket_first(rid, raw) ==
    IF null_date(raw) THEN TypeError
    ELSE IF ~raw.dates_parse THEN <<>>
    ELSE IF match_ticket(IF Truthy(raw.activityTitle) THEN raw.activityTitle ELSE <<>>) # <<>>
    THEN <<classify(rid, raw)>>
    ELSE IF is_ignored(raw) THEN <<>>
    ELSE <<classify(rid, raw)>>

\* match_activity that drops a record nothing matched
match_activity_drop_unmatched(rid, raw) ==
    IF is_ignored(raw) THEN <<>>
    ELSE IF null_date(raw) THEN TypeError
    ELSE IF ~raw.dates_parse THEN <<>>
    ELSE IF classify(rid, raw).project_id = None THEN <<>>
    ELSE <<classify(rid, raw)>>

\* Matcher.match_activity: the Activity in a one-element list, <<>> for None,
\* TypeError when date_parser.parse is handed the None of a JSON null, which
\* except (KeyError, ValueError) lets through.
\* dates_parse: the key is there and date_parser.parse succeeds, on startDate
\* and on endDate.
match_activity(rid, raw) ==
    IF is_ignored(raw) THEN <<>>
    ELSE IF null_date(raw) THEN TypeError
    ELSE IF ~raw.dates_parse THEN <<>>
    ELSE <<classify(rid, raw)>>

----------------------------------------------------------------------------
(* SpecMatch: Matcher.match_activity on one raw record *)

MaxTitleWords == 2

TitleWords ==
    { <<"A", "-", "1">>, <<"a", "-", "1", "2">>, <<"B", "-", "2">>, <<"A", "-">>,
      <<"D", "O", "c">>, <<"Z", "O", "O", "M">>, <<"I", "d", "l", "e">> }

\* the titles of at most n words, joined by blanks
RECURSIVE titles_of(_)
titles_of(n) ==
    IF n = 1 THEN TitleWords
    ELSE titles_of(n - 1)
           \cup {t \o <<" ">> \o w : t \in titles_of(n - 1), w \in TitleWords}

MatchTitles == {None, <<>>} \cup titles_of(MaxTitleWords)

MatchApps == {None, AppCode, <<"Z", "o", "o", "m">>, <<"I", "D", "L", "E">>}

RawRecord(title, app, start, end, ok) ==
    [activityTitle |-> title, application |-> app, startDate |-> start,
     endDate |-> end, dates_parse |-> ok, endDate_null |-> FALSE]

\* a record whose endDate is the JSON null: endDate_null is set, and endDate
\* holds no date of the record
NullEndRecord(title, app, start) ==
    [activityTitle |-> title, application |-> app, startDate |-> start,
     endDate |-> start, dates_parse |-> FALSE, endDate_null |-> TRUE]

MatchInit ==
    /\ m_pc = "call"
    /\ m_raw \in {RawRecord(t, a, 0, 60, ok) :
                    t \in MatchTitles, a \in MatchApps, ok \in BOOLEAN}
                \cup {NullEndRecord(t, a, 0) :
                    t \in MatchTitles, a \in MatchApps}
    /\ m_result = <<>>
    /\ c_pc = "members" /\ c_confidences = <<>> /\ c_summation = <<>> /\ c_level = <<>>
    /\ agg_pc = "input" /\ activities = <<>> /\ agg_entries = <<>>
    /\ g_pc = "history" /\ g_log = <<>> /\ g_analyzer = new_analyzer(<<>>)
    /\ g_query = <<>> /\ g_found = <<>>
    /\ file = <<>> /\ pc = "input" /\ start_date = 0 /\ end_date = 0
    /\ week_start = 0 /\ git_analyzers = <<>> /\ all_activities = <<>>
    /\ matched_count = 0 /\ ignored_count = 0 /\ total_count = 0
    /\ run_entries = <<>> /\ results = <<>> /\ repos = <<>> /\ first_run = <<>>

MatchCall ==
    /\ m_pc = "call"
    /\ m_result' = match_activity(1, m_raw)
    /\ m_pc' = "done"
    /\ UNCHANGED <<m_raw, agg_vars, git_vars, run_vars, conf_vars>>

MatchNext == MatchCall

SpecMatch == MatchInit /\ [][MatchNext]_vars

\* the title of a raw record as text ("" for None)
title_text(raw) == IF Truthy(raw.activityTitle) THEN raw.activityTitle ELSE <<>>

\* prefix, in any case, stands at position i of text with a digit after it
occurs_at(prefix, text, i) ==
    /\ i >= 1 /\ i + Len(prefix) <= Len(text)
    /\ lower(SubSeq(text, i, i + Len(prefix) - 1)) = lower(prefix)
    /\ text[i + Len(prefix)] \in Digits

\* the configured prefixes that occur in text with digits
prefixes_in(text) ==
    {k \in DOMAIN ticketPrefixes :
        \E i \in DOMAIN text : occurs_at(ticketPrefixes[k].prefix, text, i)}

\* the configured patterns that match the lowercased title and application
patterns_on(raw) ==
    {k \in DOMAIN activityPatterns :
        pattern_hits(activityPatterns[k],
                     lower(title_text(raw)) \o <<" ">> \o lower(application_of(raw)))}

Least(S) == CHOOSE k \in S : \A l \in S : k <= l

\* C6: a record that is not ignored, whose dates parse and whose title holds
\* prefix+digits for a configured prefix comes back with confidence 0.95, the
\* reason "Exact ticket match: <TICKET>", the ticket an occurrence in the title
\* of the first such prefix in configuration order, and that prefix's project.
C6_TicketMatchFirstPrefix ==
    (/\ m_pc = "done"
     /\ ~is_ignored(m_raw) /\ m_raw.dates_parse
     /\ prefixes_in(title_text(m_raw)) # {})
    => /\ Len(m_result) = 1
       /\ LET a == m_result[1]
              k0 == Least(prefixes_in(title_text(m_raw)))
          IN  /\ a.confidence = 95
              /\ a.match_reason = <<"Exact ticket match: ">> \o a.ticket
              /\ a.project_id = ticketPrefixes[k0].projectId
              /\ Len(a.ticket) > Len(ticketPrefixes[k0].prefix)
              /\ \E i \in DOMAIN title_text(m_raw) :
                    /\ occurs_at(ticketPrefixes[k0].prefix, title_text(m_raw), i)
                    /\ i + Len(a.ticket) - 1 <= Len(title_text(m_raw))
                    /\ a.ticket = upper(SubSeq(title_text(m_raw), i, i + Len(a.ticket) - 1))

\* C6 happens: the ticket of the second prefix stands before the ticket of the
\* first prefix in the title, in lower case, and a pattern matches as well
C6_Witness ==
    /\ m_pc = "done"
    /\ m_raw.activityTitle = <<"B", "-", "2", " ", "a", "-", "1", "2">>
    /\ patterns_on(m_raw) # {}
    /\ Len(m_result) = 1
    /\ m_result[1].project_id = P1
    /\ m_result[1].ticket = <<"A", "-", "1", "2">>

\* C8: without a ticket in the title, the first configured pattern that
\* matches the lowercased title and application decides the project, with
\* confidence 0.75 and no ticket.
C8_FirstPatternWins ==
    (/\ m_pc = "done"
     /\ ~is_ignored(m_raw) /\ m_raw.dates_parse
     /\ prefixes_in(title_text(m_raw)) = {}
     /\ patterns_on(m_raw) # {})
    => /\ Len(m_result) = 1
       /\ m_result[1].project_id = activityPatterns[Least(patterns_on(m_raw))].projectId
       /\ m_result[1].confidence = 75
       /\ m_result[1].ticket = None

\* C8 happens: an upper-case title that both patterns match, the first by
\* containment and the second by search
C8_Witness ==
    /\ m_pc = "done"
    /\ patterns_on(m_raw) = {1, 2}
    /\ m_raw.activityTitle # lower(m_raw.activityTitle)
    /\ Len(m_result) = 1
    /\ m_result[1].project_id = activityPatterns[1].projectId
    /\ m_result[1].confidence = 75

----------------------------------------------------------------------------
(* SpecAgg: Aggregator.aggregate on every list of at most MaxActs activities *)

MaxActs == 3

\* start and end of the activities offered: shorter than, exactly and longer
\* than min_duration_seconds; gaps of exactly 5 and 15 minutes; an overlap
AggTimes == { <<0, 29>>, <<0, 30>>, <<0, 600>>, <<330, 360>>, <<930, 960>> }

\* project, ticket, application, confidence and project name of the
\* activities offered
AggKinds ==
    { <<P1, T1, AppCode, 95, N1>>, <<P1, T1, AppTerm, 95, N1>>,
      <<P1, None, AppTerm, 75, N1>>, <<P1, None, AppCode, 75, N1>>,
      <<P2, None, AppCode, 75, N2>> }

AggInit ==
    /\ agg_pc = "input"
    /\ activities = <<>>
    /\ agg_entries = <<>>
    /\ m_pc = "call" /\ m_raw = <<>> /\ m_result = <<>>
    /\ c_pc = "members" /\ c_confidences = <<>> /\ c_summation = <<>> /\ c_level = <<>>
    /\ g_pc = "history" /\ g_log = <<>> /\ g_analyzer = new_analyzer(<<>>)
    /\ g_query = <<>> /\ g_found = <<>>
    /\ file = <<>> /\ pc = "input" /\ start_date = 0 /\ end_date = 0
    /\ week_start = 0 /\ git_analyzers = <<>> /\ all_activities = <<>>
    /\ matched_count = 0 /\ ignored_count = 0 /\ total_count = 0
    /\ run_entries = <<>> /\ results = <<>> /\ repos = <<>> /\ first_run = <<>>

AggAdd ==
    /\ agg_pc = "input"
    /\ Len(activities) < MaxActs
    /\ \E t \in AggTimes, k \in AggKinds :
         activities' = Append(activities,
             Activity(Len(activities) + 1, None, k[3], t[1], t[2], k[2], k[1],
                      k[5], k[4], <<>>))
    /\ UNCHANGED <<agg_pc, agg_entries, match_vars, git_vars, run_vars, conf_vars>>

AggRun ==
    /\ agg_pc = "input"
    /\ agg_entries' = aggregate(activities)
    /\ agg_pc' = "done"
    /\ UNCHANGED <<activities, match_vars, git_vars, run_vars, conf_vars>>

AggNext == AggAdd \/ AggRun

SpecAgg == AggInit /\ [][AggNext]_vars

\* the activities aggregate groups: filtered, in start order
agg_sorted == sort_by_start(filter_min_duration(activities))

\* the positions of the entries that hold the activity object rid
entries_of(entries, rid) ==
    {k \in DOMAIN entries :
        \E i \in DOMAIN entries[k].source_activities :
            entries[k].source_activities[i].rid = rid}

member_set(e) == Range(e.source_activities)

\* C1: every entry aggregate returns has members that all carry the entry's
\* own projectId, so no entry holds activities of two projects.
C1_OneProjectPerEntry ==
    agg_pc = "done" =>
        \A k \in DOMAIN agg_entries :
            \A m \in member_set(agg_entries[k]) :
                m.project_id = agg_entries[k].project_id

\* C1 happens: an entry of two members, and activities of another project
\* that overlap it in time in an entry of their own
C1_Witness ==
    /\ agg_pc = "done"
    /\ \E k, l \in DOMAIN agg_entries :
         /\ Len(agg_entries[k].source_activities) >= 2
         /\ agg_entries[l].project_id # agg_entries[k].project_id
         /\ agg_entries[l].start_date < agg_entries[k].end_date

\* the merge predicate as section 4.2 states it; the same ticket is a ticket
\* both activities carry
merge_predicate(earlier, later) ==
    LET gap == later.start_date - earlier.end_date
        same_ticket == Truthy(earlier.ticket) /\ earlier.ticket = later.ticket
        same_app == earlier.application = later.application
    IN  /\ earlier.project_id = later.project_id
        /\ \/ gap < 5 * 60
           \/ gap >= 5 * 60 /\ gap < max_gap_minutes * 60
                /\ (same_ticket \/ same_app)

\* C2: two activities adjacent in the start-sorted, duration-filtered sequence
\* are members of the same entry exactly when the merge predicate holds for
\* the pair.
C2_AdjacentMergedIffPredicate ==
    agg_pc = "done" =>
        \A i \in 1..(Len(agg_sorted) - 1) :
            (entries_of(agg_entries, agg_sorted[i].rid)
               \cap entries_of(agg_entries, agg_sorted[i + 1].rid) # {})
            <=> merge_predicate(agg_sorted[i], agg_sorted[i + 1])

\* C2 happens: one run with a pair merged across a medium gap, a pair merged
\* on an overlap (negative gap) or split at a gap of exactly five minutes
C2_Witness ==
    /\ agg_pc = "done"
    /\ Len(agg_sorted) = 3
    /\ \E i, j \in 1..2 :
         /\ i # j
         /\ agg_sorted[i + 1].start_date - agg_sorted[i].end_date >= 5 * 60
         /\ merge_predicate(agg_sorted[i], agg_sorted[i + 1])
         /\ agg_sorted[j].project_id = agg_sorted[j + 1].project_id
         /\ agg_sorted[j + 1].start_date - agg_sorted[j].end_date = 5 * 60
         /\ ~merge_predicate(agg_sorted[j], agg_sorted[j + 1])

\* C3: an activity shorter than minDurationSeconds is a member of no entry;
\* one of exactly minDurationSeconds is kept.
C3_ShortActivitiesDropped ==
    agg_pc = "done" =>
        \A i \in DOMAIN activities :
            /\ duration_seconds(activities[i]) < min_duration_seconds
                 => entries_of(agg_entries, activities[i].rid) = {}
            /\ duration_seconds(activities[i]) = min_duration_seconds
                 => entries_of(agg_entries, activities[i].rid) # {}

\* C3 happens: a run given a 29 second and a 30 second activity
C3_Witness ==
    /\ agg_pc = "done"
    /\ \E i, j \in DOMAIN activities :
         /\ duration_seconds(activities[i]) = min_duration_seconds - 1
         /\ duration_seconds(activities[j]) = min_duration_seconds
    /\ agg_entries # <<>>

\* C5: every entry starts at the least start and ends at the greatest end of
\* its members.
C5_EntrySpansMembers ==
    agg_pc = "done" =>
        \A k \in DOMAIN agg_entries :
            LET e == agg_entries[k] IN
            /\ \A m \in member_set(e) : e.start_date <= m.start_date
            /\ \E m \in member_set(e) : e.start_date = m.start_date
            /\ \A m \in member_set(e) : e.end_date >= m.end_date
            /\ \E m \in member_set(e) : e.end_date = m.end_date

\* C22: every entry starts at the start of its first member and ends at the
\* end of its last member, its members standing in the order of their
\* starts; an entry of one activity has the start and the end of that
\* activity.
C22_EntryFromFirstToLastMember ==
    agg_pc = "done" =>
        \A k \in DOMAIN agg_entries :
            LET members == agg_entries[k].source_activities IN
            /\ members # <<>>
            /\ \A i, j \in DOMAIN members :
                  i < j => members[i].start_date <= members[j].start_date
            /\ agg_entries[k].start_date = members[1].start_date
            /\ agg_entries[k].end_date = members[Len(members)].end_date
            /\ Len(members) = 1 =>
                  /\ agg_entries[k].start_date = members[1].start_date
                  /\ agg_entries[k].end_date = members[1].end_date

\* C22 happens: an entry whose last member ends before an earlier member
\* does, beside an entry of one activity
C22_Witness ==
    /\ agg_pc = "done"
    /\ \E k, l \in DOMAIN agg_entries :
         LET members == agg_entries[k].source_activities IN
         /\ Len(members) >= 2
         /\ members[Len(members)].end_date < members[1].end_date
         /\ agg_entries[k].end_date = members[Len(members)].end_date
         /\ Len(agg_entries[l].source_activities) = 1

\* the member lists of the entries, one after the other
all_members(entries) ==
    Concat([k \in DOMAIN entries |-> entries[k].source_activities])

\* how often the activity object stands in the list
occurrences(acts, rid) == Cardinality({n \in DOMAIN acts : acts[n].rid = rid})

\* C26: every activity of at least minDurationSeconds is a member of exactly
\* one entry, once, and a shorter one of none; the member lists of the
\* entries, one after the other, are in ascending order of start; the
\* entries are in non-decreasing order of start and none ends before it
\* starts.
C26_FilteredActivitiesPartitioned ==
    agg_pc = "done" =>
        LET members == all_members(agg_entries) IN
        /\ \A i \in DOMAIN activities :
              /\ occurrences(members, activities[i].rid) =
                    IF duration_seconds(activities[i]) >= min_duration_seconds
                    THEN 1 ELSE 0
              /\ Cardinality(entries_of(agg_entries, activities[i].rid)) =
                    occurrences(members, activities[i].rid)
        /\ \A n \in DOMAIN members : \E i \in DOMAIN activities : members[n] = activities[i]
        /\ \A m, n \in DOMAIN members :
              m < n => members[m].start_date <= members[n].start_date
        /\ \A k, l \in DOMAIN agg_entries :
              k < l => agg_entries[k].start_date <= agg_entries[l].start_date
        /\ \A k \in DOMAIN agg_entries :
              agg_entries[k].end_date >= agg_entries[k].start_date

\* C26 happens: three activities given out of the order of their starts, one
\* of them too short, the other two in two entries
C26_Witness ==
    /\ agg_pc = "done"
    /\ Len(activities) = 3
    /\ \E i, j \in DOMAIN activities :
         i < j /\ activities[i].start_date > activities[j].start_date
    /\ \E i \in DOMAIN activities :
         duration_seconds(activities[i]) < min_duration_seconds
    /\ Len(agg_entries) = 2

----------------------------------------------------------------------------------------------------------------------------------------
(* SpecConf: Aggregator._create_entry sets the confidence level of one     *)
(* entry.  The members are the activities of the entry in list order; a    *)
(* ticket match carries 0.95, a pattern match 0.75, an unmatched activity  *)
(* 0.2.  Unmatched activities, which have no project and so share an entry *)
(* with matched ones in no run of the matcher, are offered as the first    *)
(* MaxLowFirst members only.                                               *)

MaxMembers == 12

MaxLowFirst == 3

Confidences == {confidence_ticket, confidence_pattern, confidence_unmatched}

ConfInit ==
    /\ c_pc = "members"
    /\ c_confidences = <<>>
    /\ c_summation = <<>>
    /\ c_level = <<>>
    /\ agg_pc = "input" /\ activities = <<>> /\ agg_entries = <<>>
    /\ m_pc = "call" /\ m_raw = <<>> /\ m_result = <<>>
    /\ g_pc = "history" /\ g_log = <<>> /\ g_analyzer = new_analyzer(<<>>)
    /\ g_query = <<>> /\ g_found = <<>>
    /\ file = <<>> /\ pc = "input" /\ start_date = 0 /\ end_date = 0
    /\ week_start = 0 /\ git_analyzers = <<>> /\ all_activities = <<>>
    /\ matched_count = 0 /\ ignored_count = 0 /\ total_count = 0
    /\ run_entries = <<>> /\ results = <<>> /\ repos = <<>> /\ first_run = <<>>

\* the group gains an activity
ConfMember ==
    /\ c_pc = "members"
    /\ Len(c_confidences) < MaxMembers
    /\ \E c \in Confidences :
          /\ c = confidence_unmatched => Len(c_confidences) < MaxLowFirst
          /\ c_confidences' = Append(c_confidences, c)
    /\ UNCHANGED <<c_pc, c_summation, c_level, agg_vars, match_vars, git_vars, run_vars>>

\* _create_entry(activities), under either sum() of CPython
ConfEntry ==
    /\ c_pc = "members"
    /\ c_confidences # <<>>
    /\ \E summation \in Summations :
          /\ c_summation' = summation
          /\ c_level' = average_level(c_confidences, summation)
    /\ c_pc' = "done"
    /\ UNCHANGED <<c_confidences, agg_vars, match_vars, git_vars, run_vars>>

ConfNext == ConfMember \/ ConfEntry

SpecConf == ConfInit /\ [][ConfNext]_vars

\* the bucket of the arithmetic mean of the confidences, in exact
\* arithmetic on hundredths
level_of_mean(confidences) ==
    LET total == SumSeq(confidences)
        n     == Len(confidences)
    IN  IF total >= high_threshold * n THEN "high"
        ELSE IF total >= medium_threshold * n THEN "medium"
        ELSE "low"

\* C13: the confidence level of an entry is the bucket of the arithmetic
\* mean m of its members' confidences: high for m >= 0.85 (a mean of exactly
\* 0.85 is high), medium for 0.6 <= m < 0.85 (exactly 0.6 is medium), low
\* for m < 0.6.
C13_LevelOfMean ==
    c_pc = "done" => c_level = level_of_mean(c_confidences)

\* an entry whose mean is exactly 0.85 got a level
C13_MeanExactlyHigh ==
    /\ c_pc = "done"
    /\ SumSeq(c_confidences) = high_threshold * Len(c_confidences)

\* an entry whose mean is exactly 0.6 got a level
C13_MeanExactlyMedium ==
    /\ c_pc = "done"
    /\ SumSeq(c_confidences) = medium_threshold * Len(c_confidences)

\* Under either sum(), an entry of fewer than twelve members gets the level
\* of its exact mean: the rounding of the doubles shows from twelve members
\* on.
C13_SummationsAgreeOnSmallEntries ==
    (c_pc = "done" /\ Len(c_confidences) < 12)
        => c_level = level_of_mean(c_confidences)

\* the members that are ticket matches
ticket_matches(confidences) ==
    Cardinality({i \in DOMAIN confidences : confidences[i] = confidence_ticket})

\* the confidences of activities that have a project
of_matched(confidences) ==
    \A i \in DOMAIN confidences :
        confidences[i] \in {confidence_ticket, confidence_pattern}

\* C27: an entry whose members all have a project (confidence 0.95 or 0.75),
\* as every entry of a run of process has, is never low; it is high exactly
\* when at least half of its members are ticket matches, and medium
\* otherwise.
C27_HighIffHalfTicketMatches ==
    (c_pc = "done" /\ of_matched(c_confidences)) =>
        /\ c_level # "low"
        /\ c_level = "high"
              <=> 2 * ticket_matches(c_confidences) >= Len(c_confidences)
        /\ c_level = "medium"
              <=> 2 * ticket_matches(c_confidences) < Len(c_confidences)

----------------------------------------------------------------------------
(* SpecGroup: Aggregator.aggregate on the activities match_activity makes of *)
(* the records of one project, exported in the order of their starts        *)

MaxGroupActs == 3

\* one-minute records: a gap of one minute, of exactly five, of ten and of
\* exactly max_gap_minutes between neighbours
GroupSpans ==
    { <<0, 60>>, <<120, 180>>, <<480, 540>>, <<1140, 1200>>, <<2100, 2160>> }

\* titles that carry a ticket of p2 (as the ticket is written, in lower case,
\* and one that sorts before it though its number is greater) or the pattern
\* of p2
GroupTitles ==
    { <<"B", "-", "2">>, <<"b", "-", "2">>, <<"B", "-", "1", "0">>,
      <<"z", "o", "o", "m">> }

GroupApps == {AppCode, AppTerm}

GroupInit ==
    /\ agg_pc = "input"
    /\ activities = <<>>
    /\ agg_entries = <<>>
    /\ m_pc = "call" /\ m_raw = <<>> /\ m_result = <<>>
    /\ c_pc = "members" /\ c_confidences = <<>> /\ c_summation = <<>> /\ c_level = <<>>
    /\ g_pc = "history" /\ g_log = <<>> /\ g_analyzer = new_analyzer(<<>>)
    /\ g_query = <<>> /\ g_found = <<>>
    /\ file = <<>> /\ pc = "input" /\ start_date = 0 /\ end_date = 0
    /\ week_start = 0 /\ git_analyzers = <<>> /\ all_activities = <<>>
    /\ matched_count = 0 /\ ignored_count = 0 /\ total_count = 0
    /\ run_entries = <<>> /\ results = <<>> /\ repos = <<>> /\ first_run = <<>>

\* the next record of the export is matched
GroupAdd ==
    /\ agg_pc = "input"
    /\ Len(activities) < MaxGroupActs
    /\ \E span \in GroupSpans, title \in GroupTitles, app \in GroupApps :
         LET matched == match_activity(Len(activities) + 1,
                            RawRecord(title, app, span[1], span[2], TRUE))
         IN  /\ activities # <<>> => activities[Len(activities)].start_date < span[1]
             /\ matched # <<>>
             /\ Truthy(matched[1].project_id)
             /\ activities' = Append(activities, matched[1])
    /\ UNCHANGED <<agg_pc, agg_entries, match_vars, git_vars, run_vars, conf_vars>>

GroupNext == GroupAdd \/ AggRun

SpecGroup == GroupInit /\ [][GroupNext]_vars

\* the two activities are members of one entry
together(a, b) ==
    entries_of(agg_entries, a.rid) \cap entries_of(agg_entries, b.rid) # {}

\* the gap between two neighbours of the start-sorted sequence, in seconds
gap_seconds(last, current) == current.start_date - last.end_date

\* a ticket both activities carry
same_ticket(last, current) == Truthy(last.ticket) /\ last.ticket = current.ticket

\* C21: two neighbours of the start-sorted sequence that have the same project
\* and a gap of at least 5 minutes and less than maxGapMinutes are in one
\* entry exactly when they carry the same ticket or have the same
\* application; at a gap of 10 minutes with different tickets and different
\* applications they are in two entries; at a gap of maxGapMinutes or more
\* they are never in one entry.
C21_MediumGapNeedsTicketOrApplication ==
    agg_pc = "done" =>
        \A i \in 1..(Len(agg_sorted) - 1) :
            LET last == agg_sorted[i]
                current == agg_sorted[i + 1]
                gap == gap_seconds(last, current)
            IN  /\ ( /\ last.project_id = current.project_id
                     /\ 5 * 60 <= gap /\ gap < max_gap_minutes * 60 )
                   => ( together(last, current)
                          <=> ( same_ticket(last, current)
                                \/ last.application = current.application ) )
                /\ ( /\ gap = 10 * 60
                     /\ last.ticket # current.ticket
                     /\ last.application # current.application )
                   => ~together(last, current)
                /\ gap >= max_gap_minutes * 60 => ~together(last, current)

\* C21 happens: in one run a pair five minutes apart is merged on its ticket
\* though the applications differ, and a pair ten minutes apart with
\* different tickets and different applications is split
C21_Witness ==
    /\ agg_pc = "done"
    /\ Len(agg_sorted) = 3
    /\ gap_seconds(agg_sorted[1], agg_sorted[2]) = 5 * 60
    /\ same_ticket(agg_sorted[1], agg_sorted[2])
    /\ agg_sorted[1].application # agg_sorted[2].application
    /\ together(agg_sorted[1], agg_sorted[2])
    /\ gap_seconds(agg_sorted[2], agg_sorted[3]) = 10 * 60
    /\ Truthy(agg_sorted[3].ticket)
    /\ agg_sorted[2].ticket # agg_sorted[3].ticket
    /\ agg_sorted[2].application # agg_sorted[3].application
    /\ ~together(agg_sorted[2], agg_sorted[3])

\* the tickets the members of the entry carry
member_tickets(e) ==
    {e.source_activities[i].ticket :
        i \in {j \in DOMAIN e.source_activities : Truthy(e.source_activities[j].ticket)}}

\* the lexicographically smallest of a set of str
smallest(S) == CHOOSE t \in S : \A u \in S : u = t \/ str_lt(t, u)

\* the positions of the members whose activityTitle is not empty and is not
\* the ticket
describing(e, ticket) ==
    {i \in DOMAIN e.source_activities :
        /\ Truthy(e.source_activities[i].activity_title)
        /\ e.source_activities[i].activity_title # ticket}

\* C23: the title of an entry with a member that carries a ticket is made of
\* the lexicographically smallest ticket of its members: followed by ": " and
\* the activityTitle of the first member whose activityTitle is not empty and
\* differs from that ticket when there is such a member, the ticket alone
\* otherwise.
C23_TitleOfSmallestTicket ==
    agg_pc = "done" =>
        \A k \in DOMAIN agg_entries :
            LET e == agg_entries[k]
                ticket == smallest(member_tickets(e))
                others == describing(e, ticket)
                first == CHOOSE i \in others : \A j \in others : i <= j
            IN  member_tickets(e) # {} =>
                    e.title = IF others # {}
                              THEN ticket \o <<": ">>
                                       \o e.source_activities[first].activity_title
                              ELSE ticket

\* C23 happens: an entry whose smallest ticket is not the ticket of its first
\* member and whose title names the first member's activityTitle, and an
\* entry whose title is its ticket alone
C23_Witness ==
    /\ agg_pc = "done"
    /\ \E k, l \in DOMAIN agg_entries :
         /\ Cardinality(member_tickets(agg_entries[k])) = 2
         /\ agg_entries[k].source_activities[1].ticket
                # smallest(member_tickets(agg_entries[k]))
         /\ agg_entries[k].title =
                smallest(member_tickets(agg_entries[k])) \o <<": ">>
                    \o agg_entries[k].source_activities[1].activity_title
         /\ member_tickets(agg_entries[l]) # {}
         /\ agg_entries[l].title = smallest(member_tickets(agg_entries[l]))

member_applications(e) ==
    {e.source_activities[i].application : i \in DOMAIN e.source_activities}

\* the reasons of the members that have one
member_reasons(e) ==
    {e.source_activities[i].match_reason :
        i \in {j \in DOMAIN e.source_activities :
                  Truthy(e.source_activities[j].match_reason)}}

lists_applications(notes) == "Applications: " \in Range(notes)

gives_reason(notes) == "Match: " \in Range(notes)

ends_with(text, tail) ==
    /\ Len(tail) <= Len(text)
    /\ SubSeq(text, Len(text) - Len(tail) + 1, Len(text)) = tail

\* C24: the notes of an entry as aggregate returns it list the applications
\* of its members exactly when the members have more than one application,
\* and then name each of them; they give a match reason exactly when the
\* members that have a reason have one and the same reason, and then that
\* reason; with two or more different reasons they give none.
C24_NotesOfApplicationsAndReason ==
    agg_pc = "done" =>
        \A k \in DOMAIN agg_entries :
            LET e == agg_entries[k]
                apps == member_applications(e)
                reasons == member_reasons(e)
            IN  /\ lists_applications(e.notes) <=> Cardinality(apps) > 1
                /\ lists_applications(e.notes)
                      => \A a \in apps : contains(e.notes, a)
                /\ gives_reason(e.notes) <=> Cardinality(reasons) = 1
                /\ gives_reason(e.notes)
                      => \A r \in reasons : ends_with(e.notes, <<"Match: ">> \o r)
                /\ Cardinality(reasons) >= 2
                      => \A r \in reasons : ~contains(e.notes, r)

\* C24 happens: an entry of two applications and two different reasons, whose
\* notes list the applications and give no reason, and an entry of one
\* application whose notes are its reason alone
C24_Witness ==
    /\ agg_pc = "done"
    /\ \E k, l \in DOMAIN agg_entries :
         /\ Cardinality(member_applications(agg_entries[k])) = 2
         /\ Cardinality(member_reasons(agg_entries[k])) = 2
         /\ lists_applications(agg_entries[k].notes)
         /\ ~gives_reason(agg_entries[k].notes)
         /\ Cardinality(member_applications(agg_entries[l])) = 1
         /\ gives_reason(agg_entries[l].notes)
         /\ ~lists_applications(agg_entries[l].notes)

----------------
(* chunker.py *)

\* the records of the export with the position that identifies each of them
numbered(recs) == [i \in DOMAIN recs |-> [rid |-> i, raw |-> recs[i]]]

\* chunk_by_date_range whose filter keeps the records of the last day too
chunk_by_date_range_closed(recs, first_day, last_day) ==
    LET inside(r) == first_day <= date(r.raw.startDate)
                     /\ date(r.raw.startDate) <= last_day
    IN  SelectSeq(recs, inside)

\* chunk_by_date_range: jq keeps, in file order, the records whose startDate
\* string is >= the first day and < the last day
chunk_by_date_range(recs, first_day, last_day) ==
    LET inside(r) == first_day <= date(r.raw.startDate)
                     /\ date(r.raw.startDate) < last_day
    IN  SelectSeq(recs, inside)

\* timedelta(days=7) of chunk_by_week, timedelta(days=1) of chunk_by_day
week_days == 7
day_days == 1

Min(a, b) == IF a <= b THEN a ELSE b

\* the loop chunk_by_week and chunk_by_day share: the windows yielded from day
\* cur on, an empty window is not yielded
RECURSIVE chunk_loop(_, _, _, _)
chunk_loop(recs, cur, end, days) ==
    IF ~(cur < end) THEN <<>>
    ELSE LET window_end == Min(cur + days, end)
             chunk == chunk_by_date_range(recs, cur, window_end)
         IN  (IF chunk # <<>> THEN << chunk >> ELSE <<>>)
                 \o chunk_loop(recs, window_end, end, days)

chunk_by_week(recs, start, end) == chunk_loop(recs, start, end, week_days)

chunk_by_day(recs, start, end) == chunk_loop(recs, start, end, day_days)

\* get_date_range: the date parts of the least and the greatest startDate;
\* <<>> when jq answers [null, null] for an export without records, where
\* dates[0][:10] raises a TypeError the function does not catch
get_date_range(recs) ==
    IF recs = <<>> THEN <<>>
    ELSE LET starts == {recs[i].startDate : i \in DOMAIN recs}
             least == CHOOSE t \in starts : \A u \in starts : t <= u
             greatest == CHOOSE t \in starts : \A u \in starts : u <= t
         IN  <<date(least), date(greatest)>>

----------------------------------------------------------------------------
(* matcher.py: Matcher.process and what it calls *)

include_commit_shas == TRUE

summary_limit == 20

\* config.git_repos
git_repos ==
    << [path |-> "repo1", ticket_prefixes |-> GitPrefixes],
       [path |-> "repo2", ticket_prefixes |-> GitPrefixes] >>

\* the loop body that counts every activity as matched
match_step_all_matched(st, r) ==
    LET activity == match_activity(r.rid, r.raw) IN
    IF raises(activity) THEN [st EXCEPT !.raised = TRUE]
    ELSE IF activity = <<>>
    THEN [st EXCEPT !.total_count = @ + 1, !.ignored_count = @ + 1]
    ELSE [st EXCEPT !.total_count = @ + 1,
                    !.matched_count = @ + 1,
                    !.all_activities = Append(@, activity[1])]

\* the body of the loop over raw_activities in process for one record
match_step(st, r) ==
    LET activity == match_activity(r.rid, r.raw) IN
    IF raises(activity) THEN [st EXCEPT !.raised = TRUE]
    ELSE IF activity = <<>>
    THEN [st EXCEPT !.total_count = @ + 1, !.ignored_count = @ + 1]
    ELSE [st EXCEPT !.total_count = @ + 1,
                    !.matched_count = IF Truthy(activity[1].project_id) THEN @ + 1 ELSE @,
                    !.all_activities = Append(@, activity[1])]

\* the loop over the records of one window
RECURSIVE match_chunk(_, _, _)
match_chunk(st, chunk, i) ==
    IF i > Len(chunk) \/ st.raised THEN st
    ELSE match_chunk(match_step(st, chunk[i]), chunk, i + 1)

\* the locals of process before the first window
no_activities ==
    [all_activities |-> <<>>, matched_count |-> 0, ignored_count |-> 0,
     total_count |-> 0, raised |-> FALSE]

has_project(a) == Truthy(a.project_id)

has_no_project(a) == ~Truthy(a.project_id)

has_ticket(a) == Truthy(a.ticket)

\* matched_activities of process
matched_activities(acts) == SelectSeq(acts, has_project)

\* the ticket enrich_with_commits asks for: the first member's that has one
first_ticket(entry) ==
    LET with == SelectSeq(entry.source_activities, has_ticket)
    IN  IF with = <<>> THEN None ELSE with[1].ticket

\* the loop body that asks the first repository only
enrich_entry_first_repo(entry, analyzers) ==
    LET all_commits ==
            find_commits_for_activity(analyzers[1], entry.start_date,
                entry.end_date, first_ticket(entry), commit_time_window_minutes)
        commit_notes == format_commit_notes(all_commits)
    IN  IF all_commits = <<>> THEN entry
        ELSE [entry EXCEPT
                !.commit_shas = [i \in DOMAIN all_commits |-> all_commits[i].sha],
                !.notes = IF @ # <<>> THEN @ \o <<"\n">> \o commit_notes
                          ELSE commit_notes]

\* the loop body that writes the commits over the notes of the entry
enrich_entry_notes_replaced(entry, analyzers) ==
    LET all_commits ==
            Concat([k \in DOMAIN analyzers |->
                      find_commits_for_activity(analyzers[k], entry.start_date,
                          entry.end_date, first_ticket(entry),
                          commit_time_window_minutes)])
    IN  IF all_commits = <<>> THEN entry
        ELSE [entry EXCEPT
                !.commit_shas = [i \in DOMAIN all_commits |-> all_commits[i].sha],
                !.notes = format_commit_notes(all_commits)]

\* the body of the loop over the entries in enrich_with_commits
enrich_entry(entry, analyzers) ==
    LET all_commits ==
            Concat([k \in DOMAIN analyzers |->
                      find_commits_for_activity(analyzers[k], entry.start_date,
                          entry.end_date, first_ticket(entry),
                          commit_time_window_minutes)])
        commit_notes == format_commit_notes(all_commits)
    IN  IF all_commits = <<>> THEN entry
        ELSE [entry EXCEPT
                !.commit_shas = [i \in DOMAIN all_commits |-> all_commits[i].sha],
                !.notes = IF @ # <<>> THEN @ \o <<"\n">> \o commit_notes
                          ELSE commit_notes]

\* enrich_with_commits under a value of config.output.include_commit_shas
enrich_with_commits_if(include, ents, analyzers) ==
    IF analyzers = <<>> \/ ~include THEN ents
    ELSE [k \in DOMAIN ents |-> enrich_entry(ents[k], analyzers)]

\* enrich_with_commits that gives up when a repository holds no commit
enrich_with_commits_all_loaded(ents, analyzers) ==
    IF analyzers = <<>> \/ ~include_commit_shas
       \/ (\E k \in DOMAIN analyzers : analyzers[k].commits = <<>>)
    THEN ents
    ELSE [k \in DOMAIN ents |-> enrich_entry(ents[k], analyzers)]

\* Matcher.enrich_with_commits
enrich_with_commits(ents, analyzers) ==
    enrich_with_commits_if(include_commit_shas, ents, analyzers)

\* the keys of a dict or Counter in insertion order
RECURSIVE first_seen(_)
first_seen(keys) ==
    IF keys = <<>> THEN <<>>
    ELSE LET before == first_seen(SubSeq(keys, 1, Len(keys) - 1))
         IN  IF keys[Len(keys)] \in Range(before) THEN before
             ELSE Append(before, keys[Len(keys)])

count_of(keys, key) == Cardinality({i \in DOMAIN keys : keys[i] = key})

\* Counter.most_common: by count descending, equal counts in insertion order
RECURSIVE insert_by_count(_, _, _)
insert_by_count(sorted, key, keys) ==
    IF sorted = <<>> THEN <<key>>
    ELSE IF count_of(keys, Head(sorted)) >= count_of(keys, key)
         THEN <<Head(sorted)>> \o insert_by_count(Tail(sorted), key, keys)
         ELSE <<key>> \o sorted

RECURSIVE sort_by_count(_, _)
sort_by_count(distinct, keys) ==
    IF distinct = <<>> THEN <<>>
    ELSE insert_by_count(sort_by_count(SubSeq(distinct, 1, Len(distinct) - 1), keys),
                         distinct[Len(distinct)], keys)

most_common_n(keys, n) ==
    LET ranked == sort_by_count(first_seen(keys), keys)
    IN  SubSeq(ranked, 1, Min(n, Len(ranked)))

\* Matcher._summarize_unmatched
summarize_unmatched(unmatched) ==
    LET keys == [i \in DOMAIN unmatched |->
                    IF Truthy(unmatched[i].activity_title)
                    THEN unmatched[i].activity_title
                    ELSE unmatched[i].application]
        top == most_common_n(keys, summary_limit)
    IN  [i \in DOMAIN top |->
            [pattern |-> top[i], count |-> count_of(keys, top[i]),
             reason |-> <<"No matching pattern">>]]

\* TimeEntry.duration_seconds
entry_duration_seconds(entry) == entry.end_date - entry.start_date

\* Aggregator.get_confidence_distribution
get_confidence_distribution(ents) ==
    LET levels == [k \in DOMAIN ents |-> ents[k].confidence]
    IN  [level \in Range(levels) |-> count_of(levels, level)]

\* the rendering that rounds the minutes to the nearest
duration_string_rounded(total_seconds) ==
    <<"P", "T">> \o str_int(total_seconds \div 3600) \o <<"H">>
        \o str_int(((total_seconds % 3600) + 30) \div 60) \o <<"M">>

\* f"PT{int(total_seconds//3600)}H{int((total_seconds%3600)//60)}M"
duration_string(total_seconds) ==
    <<"P", "T">> \o str_int(total_seconds \div 3600) \o <<"H">>
        \o str_int((total_seconds % 3600) \div 60) \o <<"M">>

\* projectMappings of _generate_output: the entries by project name, in the
\* order the names first occur
project_mappings(ents) ==
    LET names == first_seen([k \in DOMAIN ents |-> ents[k].project_name])
    IN  [n \in DOMAIN names |->
            LET of_project(e) == e.project_name = names[n]
                project_entries == SelectSeq(ents, of_project)
                total_seconds ==
                    SumSeq([k \in DOMAIN project_entries |->
                               entry_duration_seconds(project_entries[k])])
            IN  [projectName |-> names[n],
                 projectId |-> project_entries[1].project_id,
                 entryCount |-> Len(project_entries),
                 totalDuration |-> duration_string(total_seconds)]]

\* proposedEntries of _generate_output (include_source_activities is on; the
\* duration display string of a source activity is not modelled)
proposed_entries(ents) ==
    [k \in DOMAIN ents |->
        [startDate |-> ents[k].start_date,
         endDate |-> ents[k].end_date,
         project |-> ents[k].project_id,
         title |-> ents[k].title,
         notes |-> ents[k].notes,
         confidence |-> ents[k].confidence,
         sourceActivities |->
            [i \in DOMAIN ents[k].source_activities |->
                [activityTitle |-> ents[k].source_activities[i].activity_title,
                 application |-> ents[k].source_activities[i].application]]]]

\* Matcher._generate_output
generate_output(ents, acts, matched, ignored, total, now) ==
    LET unmatched == SelectSeq(acts, has_no_project) IN
    [metadata |->
        [processedDate |-> now,
         totalInputEntries |-> total,
         matchedEntries |-> matched,
         unmatchedEntries |-> Len(unmatched),
         ignoredEntries |-> ignored,
         proposedTimeEntries |-> Len(ents),
         confidenceDistribution |-> get_confidence_distribution(ents)],
     projectMappings |-> project_mappings(ents),
     proposedEntries |-> proposed_entries(ents),
     unmatchedSummary |-> summarize_unmatched(unmatched)]

\* Matcher.load_git_repos: one new analyzer per configured repository, loaded
\* from what git log prints for it, appended to self.git_analyzers
load_git_repos(analyzers, outputs) ==
    analyzers \o
        [k \in DOMAIN git_repos |->
            load_commits(new_analyzer(git_repos[k].ticket_prefixes),
                         outputs[k].lines, outputs[k].reachable)]

\* Matcher.process over the range first_day..last_day, which the arguments
\* give or get_date_range has found: what it leaves in the Matcher and what
\* it returns
process_output(loaded, st, ents, now) ==
    [git_analyzers |-> loaded,
     all_activities |-> st.all_activities,
     matched_count |-> st.matched_count,
     ignored_count |-> st.ignored_count,
     total_count |-> st.total_count,
     raised |-> st.raised,
     entries |-> ents,
     results |-> generate_output(ents, st.all_activities, st.matched_count,
                                 st.ignored_count, st.total_count, now)]

process_entries(loaded, st, now) ==
    process_output(loaded, st,
        enrich_with_commits(aggregate(matched_activities(st.all_activities)),
                            loaded),
        now)

process(recs, first_day, last_day, analyzers, outputs, now) ==
    process_entries(
        load_git_repos(analyzers, outputs),
        match_chunk(no_activities,
                    Concat(chunk_by_week(numbered(recs), first_day, last_day)), 1),
        now)

----------------------------------------------------------------------------
(* Spec: an export is written, then Matcher.process runs over it *)

MaxRecords == 3

\* the records an export is made of: two windows of week_days days meet at
\* WeekTwo
WeekTwo == week_days * Day

ExportRecords ==
    { \* a ticket of p2, and a shorter record that starts at the same second
      RawRecord(<<"B", "-", "2">>, AppCode, 100, 3800, TRUE),
      RawRecord(<<"B", "-", "2">>, AppCode, 100, 130, TRUE),
      \* the pattern of p2 at the end of the first window, a ticket of p2 at
      \* the start of the second
      RawRecord(<<"Z", "O", "O", "M">>, AppTerm, WeekTwo - 100, WeekTwo - 40, TRUE),
      RawRecord(<<"B", "-", "2">>, AppCode, WeekTwo + 50, WeekTwo + 200, TRUE),
      \* ignored by the application although the title holds a ticket, ignored
      \* by the title
      RawRecord(<<"A", "-", "1">>, <<"I", "D", "L", "E">>, 100, 400, TRUE),
      RawRecord(<<"I", "d", "l", "e">>, AppCode, WeekTwo + 50, WeekTwo + 200, TRUE),
      \* nothing matches: a prefix that lacks its digits
      RawRecord(<<"A", "-">>, AppCode, 450, 700, TRUE),
      \* an endDate that does not parse
      RawRecord(<<"B", "-", "2">>, AppCode, 500, 800, FALSE) }

\* the start_date and end_date arguments of process: <<>> when not given
ArgRanges == { << <<>>, <<>> >>, << <<0>>, <<2 * week_days>> >> }

\* what git log prints for the two repositories: the second clone holds the
\* first commit of the first, or cannot be read
RepoOutputs ==
    LET fix == LogLine(ShaOf(1), 300, <<"B", "-", "2", " ", "f", "i", "x">>, 4)
        wip == LogLine(ShaOf(2), WeekTwo + 100, <<"w", "i", "p">>, 4)
    IN  { << [reachable |-> TRUE, lines |-> <<fix, wip>>],
             [reachable |-> TRUE, lines |-> <<fix>>] >>,
          << [reachable |-> TRUE, lines |-> <<fix, wip>>],
             [reachable |-> FALSE, lines |-> <<>>] >> }

\* the values datetime.now() takes
Clock == {1, 2}

Init ==
    /\ file = <<>> /\ pc = "input" /\ start_date = 0 /\ end_date = 0
    /\ week_start = 0 /\ git_analyzers = <<>> /\ all_activities = <<>>
    /\ matched_count = 0 /\ ignored_count = 0 /\ total_count = 0
    /\ run_entries = <<>> /\ results = <<>> /\ repos = <<>> /\ first_run = <<>>
    /\ agg_pc = "input" /\ activities = <<>> /\ agg_entries = <<>>
    /\ m_pc = "call" /\ m_raw = <<>> /\ m_result = <<>>
    /\ c_pc = "members" /\ c_confidences = <<>> /\ c_summation = <<>> /\ c_level = <<>>
    /\ g_pc = "history" /\ g_log = <<>> /\ g_analyzer = new_analyzer(<<>>)
    /\ g_query = <<>> /\ g_found = <<>>

\* Timing exports one more record
WriteRecord ==
    /\ pc = "input"
    /\ Len(file) < MaxRecords
    /\ \E r \in ExportRecords : file' = Append(file, r)
    /\ UNCHANGED <<pc, start_date, end_date, week_start, git_analyzers,
                   all_activities, matched_count, ignored_count, total_count,
                   run_entries, results, repos, first_run,
                   agg_vars, match_vars, git_vars, conf_vars>>

\* process up to the loop over the windows: the date range, load_git_repos,
\* the counters
ProcessStart ==
    /\ pc = "input"
    /\ \E args \in ArgRanges, outputs \in RepoOutputs :
         LET derived == get_date_range(file)
             derive == args[1] = <<>> \/ args[2] = <<>>
         IN  IF derive /\ derived = <<>>
             THEN /\ pc' = "crashed"
                  /\ UNCHANGED <<start_date, end_date, week_start, git_analyzers,
                                 all_activities, matched_count, ignored_count,
                                 total_count, repos>>
             ELSE /\ start_date' = IF args[1] # <<>> THEN args[1][1] ELSE derived[1]
                  /\ end_date' = IF args[2] # <<>> THEN args[2][1] ELSE derived[2]
                  /\ week_start' = start_date'
                  /\ repos' = outputs
                  /\ git_analyzers' = load_git_repos(git_analyzers, outputs)
                  /\ all_activities' = no_activities.all_activities
                  /\ matched_count' = no_activities.matched_count
                  /\ ignored_count' = no_activities.ignored_count
                  /\ total_count' = no_activities.total_count
                  /\ pc' = "chunking"
    /\ UNCHANGED <<file, run_entries, results, first_run,
                   agg_vars, match_vars, git_vars, conf_vars>>

\* one turn of the loop of chunk_by_week and, when the window holds records,
\* the body of the loop of process over them
ProcessWindow ==
    /\ pc = "chunking"
    /\ week_start < end_date
    /\ LET week_end == Min(week_start + week_days, end_date)
           raw_activities == chunk_by_date_range(numbered(file), week_start, week_end)
           st == match_chunk([all_activities |-> all_activities,
                              matched_count |-> matched_count,
                              ignored_count |-> ignored_count,
                              total_count |-> total_count,
                              raised |-> FALSE], raw_activities, 1)
       IN  IF st.raised
           THEN \* the exception leaves process: its locals are gone
                /\ pc' = "crashed"
                /\ all_activities' = no_activities.all_activities
                /\ matched_count' = no_activities.matched_count
                /\ ignored_count' = no_activities.ignored_count
                /\ total_count' = no_activities.total_count
                /\ UNCHANGED week_start
           ELSE /\ all_activities' = st.all_activities
                /\ matched_count' = st.matched_count
                /\ ignored_count' = st.ignored_count
                /\ total_count' = st.total_count
                /\ week_start' = week_end
                /\ UNCHANGED pc
    /\ UNCHANGED <<file, start_date, end_date, git_analyzers, run_entries,
                   results, repos, first_run,
                   agg_vars, match_vars, git_vars, conf_vars>>

\* chunk_by_week is exhausted: process aggregates the activities with a project
Aggregate ==
    /\ pc = "chunking"
    /\ ~(week_start < end_date)
    /\ run_entries' = aggregate(matched_activities(all_activities))
    /\ pc' = "enrich"
    /\ UNCHANGED <<file, start_date, end_date, week_start, git_analyzers,
                   all_activities, matched_count, ignored_count, total_count,
                   results, repos, first_run,
                   agg_vars, match_vars, git_vars, conf_vars>>

Enrich ==
    /\ pc = "enrich"
    /\ run_entries' = enrich_with_commits(run_entries, git_analyzers)
    /\ pc' = "output"
    /\ UNCHANGED <<file, start_date, end_date, week_start, git_analyzers,
                   all_activities, matched_count, ignored_count, total_count,
                   results, repos, first_run,
                   agg_vars, match_vars, git_vars, conf_vars>>

Output ==
    /\ pc = "output"
    /\ \E now \in Clock :
         results' = generate_output(run_entries, all_activities, matched_count,
                                    ignored_count, total_count, now)
    /\ pc' = IF first_run = <<>> THEN "done" ELSE "again"
    /\ UNCHANGED <<file, start_date, end_date, week_start, git_analyzers,
                   all_activities, matched_count, ignored_count, total_count,
                   run_entries, repos, first_run,
                   agg_vars, match_vars, git_vars, conf_vars>>

\* process is called again on the same Matcher, with the same arguments, over
\* the same export and the same repositories: load_git_repos appends to the
\* analyzers the Matcher holds, the locals of process start afresh, and the
\* steps of the first call follow
ProcessAgain ==
    /\ pc = "done"
    /\ first_run = <<>>
    /\ first_run' = <<[entries |-> run_entries, results |-> results]>>
    /\ git_analyzers' = load_git_repos(git_analyzers, repos)
    /\ all_activities' = no_activities.all_activities
    /\ matched_count' = no_activities.matched_count
    /\ ignored_count' = no_activities.ignored_count
    /\ total_count' = no_activities.total_count
    /\ week_start' = start_date
    /\ pc' = "chunking"
    /\ UNCHANGED <<file, start_date, end_date, repos, run_entries, results,
                   agg_vars, match_vars, git_vars, conf_vars>>

Next == WriteRecord \/ ProcessStart \/ ProcessWindow \/ Aggregate \/ Enrich \/ Output

Spec == Init /\ [][Next]_vars

----------------------------------------------------------------------------
(* SpecRerun: process runs over an export that may hold a record with an   *)
(* endDate of null, and is then called a second time on the same Matcher   *)

MaxRerunRecords == 2

RerunRecords ==
    ExportRecords \cup {NullEndRecord(<<"B", "-", "2">>, AppCode, 450)}

RerunFiles ==
    UNION {[1..n -> RerunRecords] : n \in 0..MaxRerunRecords}

RerunInit ==
    /\ file \in RerunFiles
    /\ pc = "input" /\ start_date = 0 /\ end_date = 0
    /\ week_start = 0 /\ git_analyzers = <<>> /\ all_activities = <<>>
    /\ matched_count = 0 /\ ignored_count = 0 /\ total_count = 0
    /\ run_entries = <<>> /\ results = <<>> /\ repos = <<>> /\ first_run = <<>>
    /\ agg_pc = "input" /\ activities = <<>> /\ agg_entries = <<>>
    /\ m_pc = "call" /\ m_raw = <<>> /\ m_result = <<>>
    /\ c_pc = "members" /\ c_confidences = <<>> /\ c_summation = <<>> /\ c_level = <<>>
    /\ g_pc = "history" /\ g_log = <<>> /\ g_analyzer = new_analyzer(<<>>)
    /\ g_query = <<>> /\ g_found = <<>>

RerunNext ==
    \/ ProcessStart \/ ProcessWindow \/ Aggregate \/ Enrich \/ Output
    \/ ProcessAgain

SpecRerun == RerunInit /\ [][RerunNext]_vars

\* the positions in the export of the records the windows have delivered
seen ==
    IF pc \in {"input", "crashed"} THEN {}
    ELSE {i \in DOMAIN file : /\ start_date <= date(file[i].startDate)
                              /\ date(file[i].startDate) < week_start}

\* pat occurs in text, in any case
occurs_ci(pat, text) ==
    \E i \in 1..(Len(text) - Len(pat) + 1) :
        lower(SubSeq(text, i, i + Len(pat) - 1)) = lower(pat)

\* the title or the application of the record matches an ignore pattern
ignore_hit(raw) ==
    \E k \in DOMAIN ignorePatterns :
        \/ occurs_ci(ignorePatterns[k], title_text(raw))
        \/ occurs_ci(ignorePatterns[k], application_of(raw))

\* the delivered records match_activity classifies: not ignored, dates parse
classified == {i \in seen : ~ignore_hit(file[i]) /\ file[i].dates_parse}

\* the delivered records no ticket prefix and no pattern matches
nothing_matches ==
    {i \in classified : /\ prefixes_in(title_text(file[i])) = {}
                        /\ patterns_on(file[i]) = {}}

\* the key of a record in the unmatched summary
summary_key(raw) ==
    IF Truthy(raw.activityTitle) THEN raw.activityTitle ELSE application_of(raw)

\* the count the summary of the report gives for a key, 0 without a line
summary_count(key) ==
    LET lines == {n \in DOMAIN results.unmatchedSummary :
                     results.unmatchedSummary[n].pattern = key}
    IN  IF lines = {} THEN 0
        ELSE results.unmatchedSummary[CHOOSE n \in lines : TRUE].count

\* C7: a delivered record whose title or application matches an ignore
\* pattern, with or without a ticket in its title, is no activity of the run
\* and a member of no entry; ignoredEntries counts exactly the ignored and the
\* malformed records, matchedEntries and unmatchedEntries together exactly the
\* others, and the unmatched summary counts only records that are not ignored.
C7_IgnoredDroppedFirst ==
    /\ \A i \in seen :
          ignore_hit(file[i]) =>
              /\ \A n \in DOMAIN all_activities : all_activities[n].rid # i
              /\ entries_of(run_entries, i) = {}
    /\ ignored_count = Cardinality(seen \ classified)
    /\ matched_count
         + Cardinality({n \in DOMAIN all_activities : ~Truthy(all_activities[n].project_id)})
         = Cardinality(classified)
    /\ pc = "done" =>
          /\ results.metadata.ignoredEntries = Cardinality(seen \ classified)
          /\ results.metadata.matchedEntries + results.metadata.unmatchedEntries
               = Cardinality(classified)
          /\ \A n \in DOMAIN results.unmatchedSummary :
                results.unmatchedSummary[n].count =
                    Cardinality({i \in nothing_matches :
                        summary_key(file[i]) = results.unmatchedSummary[n].pattern})

\* C7 happens: a finished run over a record with a ticket in its title that
\* the application has ignored, a record the title has ignored, and a record
\* that made an entry
C7_Witness ==
    /\ pc = "done"
    /\ \E i \in seen : /\ occurs_ci(ignorePatterns[1], application_of(file[i]))
                       /\ prefixes_in(title_text(file[i])) # {}
    /\ \E i \in seen : occurs_ci(ignorePatterns[1], title_text(file[i]))
    /\ results.metadata.ignoredEntries = 2
    /\ results.metadata.proposedTimeEntries = 1

\* C9: a delivered record that is not ignored, whose dates parse and that no
\* ticket prefix and no pattern matches is one activity of the run, without
\* project and ticket, with confidence 0.2 and the reason "No pattern
\* matched"; it is a member of no entry, unmatchedEntries counts exactly these
\* records, and the unmatched summary counts each of them under its title, or
\* under its application when it has no title.
C9_UnmatchedKept ==
    /\ \A i \in nothing_matches :
          /\ Cardinality({n \in DOMAIN all_activities : all_activities[n].rid = i}) = 1
          /\ \A n \in DOMAIN all_activities :
                all_activities[n].rid = i =>
                    /\ all_activities[n].project_id = None
                    /\ all_activities[n].ticket = None
                    /\ all_activities[n].confidence = 20
                    /\ all_activities[n].match_reason = <<"No pattern matched">>
          /\ entries_of(run_entries, i) = {}
    /\ pc = "done" =>
          /\ results.metadata.unmatchedEntries = Cardinality(nothing_matches)
          /\ \A i \in nothing_matches :
                summary_count(summary_key(file[i])) =
                    Cardinality({j \in nothing_matches :
                        summary_key(file[j]) = summary_key(file[i])})

\* C9 happens: a finished run over two records whose title holds a prefix
\* without digits, next to a record that made an entry
C9_Witness ==
    /\ pc = "done"
    /\ \E i, j \in nothing_matches :
          /\ i # j
          /\ file[i].activityTitle = ticketPrefixes[1].prefix
    /\ results.metadata.unmatchedEntries = 2
    /\ Len(results.unmatchedSummary) = 1
    /\ results.unmatchedSummary[1].count = 2
    /\ results.metadata.proposedTimeEntries = 1

\* the export with its records in the order p
permuted(recs, p) == [i \in DOMAIN recs |-> recs[p[i]]]

\* p leaves the records of one startDate in the order they have
keeps_ties(recs, p) ==
    \A i, j \in DOMAIN recs :
        (i < j /\ recs[p[i]].startDate = recs[p[j]].startDate) => p[i] < p[j]

\* windows of a day, of a week, and one window for the whole range
WindowDays == {day_days, week_days, 2 * week_days}

\* what match_activity makes of each record of the export
matched_file == [i \in DOMAIN file |-> match_activity(i, file[i])] \o <<>>

\* what the report would show of the entries process aggregates when the
\* export holds its records in the order p and is read, over the range of the
\* run, in windows of days days
entries_from(p, days, returns) ==
    LET delivered == Concat(chunk_loop(numbered(permuted(file, p)),
                                       start_date, end_date, days))
        returned == Concat([n \in DOMAIN delivered |-> returns[p[delivered[n].rid]]])
    IN  proposed_entries(aggregate(matched_activities(returned)))

\* the window of chunk_by_week an activity is delivered in
window_of(a) == (date(a.start_date) - start_date) \div week_days

\* the activities of the run that aggregate groups
grouped == {a \in Range(all_activities) : has_project(a) /\ long_enough(a)}

\* b follows a in start order with no activity at or between their starts
neighbours(a, b) ==
    /\ a.start_date < b.start_date
    /\ \A c \in grouped \ {a, b} :
          ~(a.start_date <= c.start_date /\ c.start_date <= b.start_date)

\* two neighbours in start order that different windows delivered and that
\* satisfy the merge predicate are members of the same entry
merged_across_windows ==
    \A a, b \in grouped :
        (/\ window_of(a) # window_of(b)
         /\ neighbours(a, b)
         /\ merge_predicate(a, b))
        => /\ entries_of(run_entries, a.rid) # {}
           /\ entries_of(run_entries, a.rid) = entries_of(run_entries, b.rid)

\* C4 as claimed: the entries process aggregates are the same for every
\* length of the windows and every order of the records in the export, and
\* neighbours from different windows that satisfy the merge predicate share
\* an entry.
C4_Claimed_AnyArrivalOrder ==
    pc = "enrich" =>
        /\ LET returns == matched_file
                shown == proposed_entries(run_entries)
           IN  \A p \in Permutations(DOMAIN file), days \in WindowDays :
                   entries_from(p, days, returns) = shown
        /\ merged_across_windows

\* C4: the entries process aggregates are the same for every length of the
\* windows and every order of the records in the export that leaves records
\* of the same startDate in the order they have, and neighbours from
\* different windows that satisfy the merge predicate share an entry.
C4_WindowsAreNoBoundaries ==
    pc = "enrich" =>
        /\ LET returns == matched_file
                shown == proposed_entries(run_entries)
           IN  \A p \in Permutations(DOMAIN file) :
                   keeps_ties(file, p) =>
                       \A days \in WindowDays :
                           entries_from(p, days, returns) = shown
        /\ merged_across_windows

\* C4 happens: the export holds a record of the second window before a record
\* of the first, and the entry of the run has a member from each window
C4_Witness ==
    /\ pc = "enrich"
    /\ \E i, j \in DOMAIN file : i < j /\ file[i].startDate > file[j].startDate
    /\ \E k \in DOMAIN run_entries :
          \E a, b \in member_set(run_entries[k]) :
              /\ window_of(a) # window_of(b)
              /\ neighbours(a, b)

\* the delivered records by what became of them
activity_ids(with_project) ==
    {all_activities[n].rid : n \in {m \in DOMAIN all_activities :
                                       has_project(all_activities[m]) = with_project}}

dropped_ids == seen \ (activity_ids(TRUE) \cup activity_ids(FALSE))

\* C15: every record delivered to process is in exactly one of the classes
\* dropped, matched with a project, unmatched: it is an activity of the run
\* at most once, each counter is the size of its class, and
\* totalInputEntries = ignoredEntries + matchedEntries + unmatchedEntries.
C15_CountsPartition ==
    /\ \A i \in seen : Cardinality({n \in DOMAIN all_activities :
                                      all_activities[n].rid = i}) <= 1
    /\ activity_ids(TRUE) \cup activity_ids(FALSE) \subseteq seen
    /\ total_count = Cardinality(seen)
    /\ ignored_count = Cardinality(dropped_ids)
    /\ matched_count = Cardinality(activity_ids(TRUE))
    /\ pc = "done" =>
          /\ results.metadata.totalInputEntries = Cardinality(seen)
          /\ results.metadata.ignoredEntries = Cardinality(dropped_ids)
          /\ results.metadata.matchedEntries = Cardinality(activity_ids(TRUE))
          /\ results.metadata.unmatchedEntries = Cardinality(activity_ids(FALSE))
          /\ results.metadata.totalInputEntries
               = results.metadata.ignoredEntries + results.metadata.matchedEntries
                 + results.metadata.unmatchedEntries

\* C15 happens: a finished run that dropped a record, matched one and left
\* one unmatched
C15_Witness ==
    /\ pc = "done"
    /\ results.metadata.ignoredEntries = 1
    /\ results.metadata.matchedEntries = 1
    /\ results.metadata.unmatchedEntries = 1
    /\ results.metadata.totalInputEntries = 3

\* the analyzers load_git_repos builds when the repositories that failed are
\* not configured
analyzers_without_failed ==
    LET is_reachable(k) == repos[k].reachable
        kept == SelectSeq([k \in DOMAIN git_repos |-> k], is_reachable)
    IN  [n \in DOMAIN kept |->
            load_commits(new_analyzer(git_repos[kept[n]].ticket_prefixes),
                         repos[kept[n]].lines, TRUE)]

\* C17: the analyzer of a repository whose path does not exist or whose git
\* log fails has no commit and empty indexes, every lookup against it returns
\* the empty list, the run is not aborted, and the entries of the run, with
\* their commits and notes, are those of a run without that repository in the
\* configuration.
C17_FailedRepositoryContributesNothing ==
    /\ (pc = "crashed" /\ file # <<>>) => repos = <<>>
    /\ repos # <<>> =>
          /\ \A k \in DOMAIN git_repos :
                ~repos[k].reachable =>
                    /\ git_analyzers[k] = new_analyzer(git_repos[k].ticket_prefixes)
                    /\ \A span \in GitSpans, ticket \in GitTickets :
                          find_commits_for_activity(git_analyzers[k], span[1], span[2],
                              ticket, commit_time_window_minutes) = <<>>
          /\ pc \in {"output", "done"} =>
                run_entries =
                    enrich_with_commits(aggregate(matched_activities(all_activities)),
                                        analyzers_without_failed)

\* C17 happens: a finished run with a repository that failed, and an entry
\* with a commit of the other repository
C17_Witness ==
    /\ pc = "done"
    /\ \E k \in DOMAIN repos : ~repos[k].reachable
    /\ \E n \in DOMAIN run_entries : run_entries[n].commit_shas # <<>>

\* the ticket of the first member, in member order, that carries one
preferred_ticket(entry) ==
    LET carrying == {i \in DOMAIN entry.source_activities :
                        Truthy(entry.source_activities[i].ticket)}
    IN  IF carrying = {} THEN None
        ELSE entry.source_activities[Least(carrying)].ticket

\* the ids of the commits the repository r answers for the entry
repository_ids(entry, r) ==
    LET found == find_commits_for_activity(git_analyzers[r], entry.start_date,
                     entry.end_date, preferred_ticket(entry),
                     commit_time_window_minutes)
    IN  [i \in DOMAIN found |-> found[i].sha]

\* C19: the commit ids of each entry of a run are the answers of the
\* configured repositories to the entry's span and preferred ticket, one
\* after the other in configuration order, duplicates kept; when there is
\* such an id, the notes of the entry are its notes from the aggregation
\* followed, on a line of their own, by "Commits: " and the ids separated by
\* ", ", and otherwise its notes from the aggregation.
C19_CommitsOfAllRepositories ==
    pc \in {"output", "done"} =>
        LET before == aggregate(matched_activities(all_activities)) IN
        /\ Len(run_entries) = Len(before)
        /\ Len(git_analyzers) = Len(git_repos)
        /\ \A k \in DOMAIN run_entries :
              LET ids == Concat([r \in DOMAIN git_repos |->
                                    repository_ids(before[k], r)])
                  line == <<"Commits: ">> \o join(<<", ">>, ids)
              IN  /\ run_entries[k].commit_shas = ids
                  /\ run_entries[k].notes =
                        IF ids = <<>> THEN before[k].notes
                        ELSE IF before[k].notes = <<>> THEN line
                        ELSE before[k].notes \o <<"\n">> \o line

\* C19 happens: a finished run with an entry that lists the same id twice,
\* once for each repository, and an entry whose first member has no ticket
\* while a later member has one
C19_Witness ==
    /\ pc = "done"
    /\ \E k \in DOMAIN run_entries :
          /\ Len(run_entries[k].commit_shas) = 2
          /\ run_entries[k].commit_shas[1] = run_entries[k].commit_shas[2]
    /\ \E k \in DOMAIN run_entries :
          /\ ~Truthy(run_entries[k].source_activities[1].ticket)
          /\ preferred_ticket(run_entries[k]) # None
          /\ run_entries[k].commit_shas # <<>>

\* the entries of the run the report lists under the project name
entries_named(name) == {k \in DOMAIN run_entries : run_entries[k].project_name = name}

RECURSIVE SumOver(_, _)
SumOver(f, keys) ==
    IF keys = {} THEN 0
    ELSE LET k == CHOOSE x \in keys : TRUE IN f[k] + SumOver(f, keys \ {k})

\* the seconds from the start to the end of each entry, the seconds of the
\* member activities of each entry
span_seconds == [k \in DOMAIN run_entries |->
                    run_entries[k].end_date - run_entries[k].start_date]

member_seconds ==
    [k \in DOMAIN run_entries |->
        SumSeq([i \in DOMAIN run_entries[k].source_activities |->
                   duration_seconds(run_entries[k].source_activities[i])])]

\* the string is PT{h}H{m}M for the whole hours h and the whole minutes m < 60
\* of the seconds, the rest of less than a minute dropped
truncated_to(string, seconds) ==
    \E h \in 0..(seconds \div 3600), m \in 0..59 :
        /\ h * 3600 + m * 60 <= seconds
        /\ seconds < h * 3600 + m * 60 + 60
        /\ string = <<"P", "T">> \o str_int(h) \o <<"H">> \o str_int(m) \o <<"M">>

\* C20 as claimed: the totalDuration of each project of the report is the sum
\* of the durations of the member activities of the project's entries, in
\* whole hours and whole minutes by truncation, as PT{h}H{m}M.
C20_Claimed_SumOfMemberDurations ==
    pc = "done" =>
        \A n \in DOMAIN results.projectMappings :
            truncated_to(results.projectMappings[n].totalDuration,
                SumOver(member_seconds,
                        entries_named(results.projectMappings[n].projectName)))

\* C20: the totalDuration of each project of the report is the sum, over the
\* project's entries, of the seconds from the entry's start to its end (the
\* gaps between its members included), in whole hours and whole minutes by
\* truncation, as PT{h}H{m}M.
C20_SumOfEntrySpans ==
    pc = "done" =>
        /\ \A k \in DOMAIN run_entries :
              \E n \in DOMAIN results.projectMappings :
                  results.projectMappings[n].projectName = run_entries[k].project_name
        /\ \A n \in DOMAIN results.projectMappings :
              truncated_to(results.projectMappings[n].totalDuration,
                  SumOver(span_seconds,
                          entries_named(results.projectMappings[n].projectName)))

\* C20 happens: a project of a finished run has an entry with a gap between
\* its members, and a total of more than an hour that is no whole number of
\* minutes
C20_Witness ==
    /\ pc = "done"
    /\ \E n \in DOMAIN results.projectMappings :
          LET mine == entries_named(results.projectMappings[n].projectName)
              total == SumOver(span_seconds, mine)
          IN  /\ \E k \in mine : span_seconds[k] > member_seconds[k]
              /\ total > 3600
              /\ total % 60 # 0

\* the entry with its commit ids and its notes left out
frame_of(e) ==
    [start_date |-> e.start_date, end_date |-> e.end_date,
     project_id |-> e.project_id, project_name |-> e.project_name,
     title |-> e.title, confidence |-> e.confidence,
     source_activities |-> e.source_activities]

starts_with(text, head) ==
    Len(head) <= Len(text) /\ SubSeq(text, 1, Len(head)) = head

\* how many lines of commit ids the notes hold
commit_lines(notes) == Cardinality({i \in DOMAIN notes : notes[i] = "Commits: "})

\* C25: between aggregate and the enrichment the entries are as aggregate
\* made them; from the enrichment on, through the writing of the report, each
\* entry differs from the one aggregate made at most in its commit ids and
\* in its notes, which are the notes aggregate made with at most one line of
\* commit ids after them; an entry without commit ids is the entry aggregate
\* made; and with commit inclusion disabled or without analyzers
\* enrich_with_commits changes no entry.
C25_EnrichmentChangesCommitsAndNotesOnly ==
    pc \in {"enrich", "output", "done"} =>
        LET before == aggregate(matched_activities(all_activities)) IN
        /\ Len(run_entries) = Len(before)
        /\ pc = "enrich" => run_entries = before
        /\ \A k \in DOMAIN run_entries :
              /\ frame_of(run_entries[k]) = frame_of(before[k])
              /\ starts_with(run_entries[k].notes, before[k].notes)
              /\ commit_lines(before[k].notes) = 0
              /\ commit_lines(run_entries[k].notes) =
                    IF run_entries[k].commit_shas = <<>> THEN 0 ELSE 1
              /\ run_entries[k].commit_shas = <<>> => run_entries[k] = before[k]
        /\ enrich_with_commits_if(FALSE, before, git_analyzers) = before
        /\ enrich_with_commits_if(TRUE, before, <<>>) = before

\* C25 happens: a finished run with an entry that has notes of the
\* aggregation and gained commit ids, and an entry for which the loaded
\* repositories hold no commit
C25_Witness ==
    /\ pc = "done"
    /\ \E k, l \in DOMAIN run_entries :
         LET before == aggregate(matched_activities(all_activities)) IN
         /\ before[k].notes # <<>>
         /\ run_entries[k].commit_shas # <<>>
         /\ run_entries[k].notes # before[k].notes
         /\ run_entries[l].commit_shas = <<>>
         /\ \E a \in DOMAIN git_analyzers : git_analyzers[a].commits # <<>>

\* what does hold of the entries of a run: their members all have a project,
\* so a confidence of 0.95 or 0.75, and none of them is low
C27_EntriesOfMatchedActivities ==
    pc \in {"enrich", "output", "done"} =>
        \A k \in DOMAIN run_entries :
            /\ \A m \in Range(run_entries[k].source_activities) :
                  /\ Truthy(m.project_id)
                  /\ m.confidence \in {confidence_ticket, confidence_pattern}
            /\ run_entries[k].confidence # "low"

\* process was called without dates: the range is the one get_date_range
\* derives (the explicit range of the model is no range of an export)
derived_range == file # <<>> /\ <<start_date, end_date>> = get_date_range(file)

\* C30: a run of process that derives its date range from the export hands
\* every record of the export to match_activity and counts it in
\* totalInputEntries, the records of the latest day of the export and the
\* records of an export of a single day among them.
C30_DerivedRangeDeliversEveryRecord ==
    (pc \in {"enrich", "output", "done"} /\ derived_range) =>
        /\ total_count = Len(file)
        /\ pc = "done" => results.metadata.totalInputEntries = Len(file)

\* what the derived range does deliver: the records that start before the
\* latest day of the export, each once
C30_RecordsBeforeLatestDayDelivered ==
    (pc \in {"enrich", "output", "done"} /\ derived_range) =>
        total_count = Cardinality({i \in DOMAIN file :
                                      date(file[i].startDate) < end_date})

----------------------------------------------------------------------------
(* The second call and the malformed record (SpecRerun) *)

\* what a report says apart from the time it was written
report_of(res) == [res EXCEPT !.metadata.processedDate = 0]

commit_lists(ents) == [k \in DOMAIN ents |-> ents[k].commit_shas]

notes_of(ents) == [k \in DOMAIN ents |-> ents[k].notes]

\* C14: running process again over the same records, with the same
\* configuration and the same repository history, on a new Matcher or a second
\* time on the same Matcher, gives the same proposed entries, the same commit
\* lists and notes and the same counts as the first run.
C14_SecondRunSameOutput ==
    /\ pc = "done" =>
          LET fresh == process(file, start_date, end_date, <<>>, repos, 0)
          IN  /\ report_of(fresh.results) = report_of(results)
              /\ fresh.entries = run_entries
    /\ pc = "again" =>
          /\ report_of(results) = report_of(first_run[1].results)
          /\ commit_lists(run_entries) = commit_lists(first_run[1].entries)
          /\ notes_of(run_entries) = notes_of(first_run[1].entries)

\* the startDate or the endDate of the record is missing or does not parse
malformed(raw) == ~raw.dates_parse

well_formed(raw) == raw.dates_parse

\* C16: a run over an export that holds a malformed record is not aborted;
\* the malformed record is no activity of the run, so a member of no entry
\* and of no line of the unmatched summary, and the entries, the unmatched
\* summary and the counts of matched and unmatched records are those of the
\* run over the export without its malformed records.
C16_MalformedRecordSkipped ==
    /\ pc = "crashed" => \A i \in DOMAIN file : ~malformed(file[i])
    /\ pc = "done" =>
          /\ \A i \in DOMAIN file :
                malformed(file[i]) =>
                    /\ \A n \in DOMAIN all_activities : all_activities[n].rid # i
                    /\ entries_of(run_entries, i) = {}
          /\ LET other == process(SelectSeq(file, well_formed), start_date,
                                  end_date, <<>>, repos, 0).results
             IN  /\ other.proposedEntries = results.proposedEntries
                 /\ other.unmatchedSummary = results.unmatchedSummary
                 /\ other.metadata.matchedEntries = results.metadata.matchedEntries
                 /\ other.metadata.unmatchedEntries = results.metadata.unmatchedEntries

----------------------------------------------------------------------------
(* SpecChunk: process is called with a start and an end date over an export *)
(* of records that all become activities, and runs up to the end of the     *)
(* loop over chunk_by_week                                                  *)

MaxChunkRecords == 2

\* the days given as start_date and end_date: a range that is empty, that
\* is reversed, of one day, of one window, of two, of two and a day
ChunkDays == {0, 1, 7, 8, 15}

\* one-minute records of a ticket of p2: in the first window, at the midnight
\* where the first two windows of a range from day 0 meet, late on day 7, on
\* day 14
ChunkStarts == {100, WeekTwo, WeekTwo + Day - 100, 2 * WeekTwo + 50}

ChunkRecords ==
    {RawRecord(<<"B", "-", "2">>, AppCode, t, t + 60, TRUE) : t \in ChunkStarts}

ChunkFiles == UNION {[1..n -> ChunkRecords] : n \in 0..MaxChunkRecords}

ChunkInit ==
    /\ file \in ChunkFiles
    /\ pc = "input" /\ start_date = 0 /\ end_date = 0
    /\ week_start = 0 /\ git_analyzers = <<>> /\ all_activities = <<>>
    /\ matched_count = 0 /\ ignored_count = 0 /\ total_count = 0
    /\ run_entries = <<>> /\ results = <<>> /\ repos = <<>> /\ first_run = <<>>
    /\ agg_pc = "input" /\ activities = <<>> /\ agg_entries = <<>>
    /\ m_pc = "call" /\ m_raw = <<>> /\ m_result = <<>>
    /\ c_pc = "members" /\ c_confidences = <<>> /\ c_summation = <<>> /\ c_level = <<>>
    /\ g_pc = "history" /\ g_log = <<>> /\ g_analyzer = new_analyzer(<<>>)
    /\ g_query = <<>> /\ g_found = <<>>

\* process up to the loop over the windows, with both dates given
ChunkStart ==
    /\ pc = "input"
    /\ \E first_day \in ChunkDays, last_day \in ChunkDays, outputs \in RepoOutputs :
         /\ start_date' = first_day
         /\ end_date' = last_day
         /\ week_start' = first_day
         /\ repos' = outputs
         /\ git_analyzers' = load_git_repos(git_analyzers, outputs)
    /\ all_activities' = no_activities.all_activities
    /\ matched_count' = no_activities.matched_count
    /\ ignored_count' = no_activities.ignored_count
    /\ total_count' = no_activities.total_count
    /\ pc' = "chunking"
    /\ UNCHANGED <<file, run_entries, results, first_run,
                   agg_vars, match_vars, git_vars, conf_vars>>

ChunkNext == ChunkStart \/ ProcessWindow \/ Aggregate

\* what chunk_by_week does in a step of ProcessWindow: one turn of its loop,
\* from current to week_end
chunk_turn ==
    /\ pc = "chunking"
    /\ week_start < end_date
    /\ week_start' = Min(week_start + week_days, end_date)

\* what chunk_by_week does in the step of Aggregate: its loop ends, and with
\* it the loop of process
chunk_exit ==
    /\ pc = "chunking"
    /\ ~(week_start < end_date)
    /\ pc' = "enrich"

\* process is one thread that runs on: while the loop of chunk_by_week can
\* take a turn it takes one, and when the loop can end it ends
SpecChunk ==
    /\ ChunkInit
    /\ [][ChunkNext]_vars
    /\ WF_week_start(chunk_turn)
    /\ WF_pc(chunk_exit)

\* the records of the export whose startDate is on a day of [first_day, last_day)
records_in(first_day, last_day) ==
    {i \in DOMAIN file :
        first_day <= date(file[i].startDate) /\ date(file[i].startDate) < last_day}

\* how often record i was handed to match_activity
delivered(i) == occurrences(all_activities, i)

\* every record of [first_day, last_day) was delivered once and no other
\* record was delivered
delivered_once(first_day, last_day) ==
    /\ \A i \in DOMAIN file :
          delivered(i) = IF i \in records_in(first_day, last_day) THEN 1 ELSE 0
    /\ total_count = Cardinality(records_in(first_day, last_day))

\* one turn of the loop of chunk_by_week: the window from week_start to
\* week_start'
window_step == pc = "chunking" /\ week_start' # week_start

\* C29 as claimed: the windows chunk_by_week yields are consecutive and cover
\* [start, end), so every window the loop computes is yielded, and process
\* runs its loop body on it.
C29_Claimed_YieldedWindowsCover ==
    [][window_step => total_count' > total_count]_vars

\* C29 amended: chunk_by_week terminates; the windows its loop computes start
\* at start, each begins where the one before ended, is at least one and at
\* most 7 days long and ends at or before end, and the last ends at end; the
\* records yielded for a window are the records whose startDate is in it;
\* so when the loop ends every record of [start, end) was delivered exactly
\* once and no other record was delivered.
C29_WindowsCoverAndDeliverOnce ==
    /\ [](pc = "chunking" =>
            /\ start_date <= week_start
            /\ start_date < end_date => week_start <= end_date
            /\ delivered_once(start_date, week_start))
    /\ [][window_step =>
            /\ week_start < week_start'
            /\ week_start' <= week_start + 7
            /\ week_start' <= end_date
            /\ pc' = "chunking"]_vars
    /\ [](pc = "enrich" =>
            /\ week_start = IF start_date < end_date THEN end_date ELSE start_date
            /\ delivered_once(start_date, end_date))
    /\ (pc = "chunking" ~> pc = "enrich")

\* C29 happens: the loop has ended over a range of two windows and a day
\* whose first window holds no record, with a record at the midnight where
\* the second window begins and a record on the last day
C29_Witness ==
    /\ pc = "enrich"
    /\ end_date - start_date = 2 * week_days + 1
    /\ records_in(start_date, start_date + week_days) = {}
    /\ \E i \in DOMAIN file : file[i].startDate = (start_date + week_days) * Day
    /\ records_in(start_date + 2 * week_days, end_date) # {}
    /\ total_count = 2

====
